---- MODULE Spec2Model ----
(***************************************************************************)
(* The grass placer of the DayZ Asset Tools extension                      *)
(* (operators/grass_placer.py): the Generate Grass operator and Python's   *)
(* process-wide random generator it seeds and draws from.                  *)
(*                                                                         *)
(* Reals are kept exact as integers over a fixed unit:                     *)
(*   random.random()      k / RandRes,  k in 0 .. RandRes-1  (so in [0,1)) *)
(*   weight, clumping     n / FactorUnit                                   *)
(*   density              n / DensityUnit                                  *)
(*   scale_min/max        n / ScaleUnit                                    *)
(*   a placed scale       n / (ScaleUnit * RandRes)                        *)
(* A point of a triangle is kept by its three barycentric weights          *)
(* w[1..3] / den; matrix_world is affine, so the world point has the same  *)
(* weights over the transformed vertices as long as the weights sum to 1.  *)
(* The merge options (merge_all_grass, merge_by_variant) are off.          *)
(***************************************************************************)
EXTENDS Integers, Sequences, FiniteSets, TLC

\* ---------------------------------------------------------------- bounds
MaxTargets == 2      \* longest target_objects list
MaxGrass == 2        \* longest grass_objects list
MaxCount == 2        \* largest total_count
MaxPasses == 2       \* Generate Grass runs in one behaviour

\* ------------------------------------- resolution of the exact arithmetic
RandRes == 4         \* random.random() takes the values k / RandRes
RandMod == 16        \* number of states of the generator
FactorUnit == 2      \* a weight or clumping factor of 1.0
DensityUnit == 8     \* a density of 1.0
ScaleUnit == 2       \* a scale of 1.0

\* --------------------------------------------------------------- objects
NoObject == "None"

\* Triangulated faces of a target mesh: area and length of the face normal
\* (a zero-area triangle has the zero vector as its normal).
Faces(obj) ==
    CASE obj = "Plane"  -> << [area |-> 1, normal |-> 1], [area |-> 3, normal |-> 1] >>
      [] obj = "Flat"   -> << [area |-> 0, normal |-> 0] >>
      [] obj = "Sliver" -> << [area |-> 0, normal |-> 0], [area |-> 2, normal |-> 1] >>
      [] OTHER          -> << >>

TargetMeshes == {"Plane", "Flat", "Sliver"}
GrassMeshes == {"TuftA", "TuftB"}

\* obj.type == 'MESH'
IsMesh(obj) == obj \in TargetMeshes \cup GrassMeshes

\* Scale and rotation a grass template object carries (object.copy() keeps them).
TemplateScale(obj) == IF obj = "TuftA" THEN ScaleUnit ELSE ScaleUnit + 1
TemplateRotation(obj) == << [rot |-> "template", angle |-> 0] >>

TargetSlots == {NoObject} \cup TargetMeshes
GrassSlots ==
    { [obj |-> NoObject, weight |-> FactorUnit], [obj |-> "TuftA", weight |-> 0],
      [obj |-> "TuftA", weight |-> 1], [obj |-> "TuftB", weight |-> FactorUnit] }

SeqsUpTo(S, n) == UNION { [1..m -> S] : m \in 0..n }

\* ------------------------------------------------------ sequence helpers
RECURSIVE SumSeq(_)
SumSeq(s) == IF s = << >> THEN 0 ELSE Head(s) + SumSeq(Tail(s))

\* ------------------------------------------------- the random generator
\* g = [rng, trace]: the generator state and the log of what the pass did.
\* A log entry: what was done, for which target and loop index, with which value.
Ev(op, kind, at, val) == [op |-> op, kind |-> kind, at |-> at, val |-> val]

RngNext(s) == (5 * s + 3) % RandMod
RngOut(s) == (s * RandRes) \div RandMod

\* Variant: the seeding is logged but leaves the generator where it was
random_seed_keeps_state(g, n) ==
    [rng |-> g.rng, trace |-> Append(g.trace, Ev("seed", "", << 0, 0 >>, n))]

random_seed(g, n) ==
    [rng |-> n % RandMod, trace |-> Append(g.trace, Ev("seed", "", << 0, 0 >>, n))]

random_random(g, kind, at) ==
    [g |-> [rng |-> RngNext(g.rng),
            trace |-> Append(g.trace, Ev("draw", kind, at, RngOut(g.rng)))],
     k |-> RngOut(g.rng)]

\* The element of a one-element set: Only({ e : x \in {v} }) is e with x
\* standing for the value v.
Only(S) == CHOOSE x \in S : TRUE

\* random.uniform(a, b) = a + (b - a) * random(); the result is val / RandRes.
random_uniform(g, a, b, kind, at) ==
    Only({ [g |-> d.g, val |-> a * RandRes + (b - a) * d.k] :
            d \in {random_random(g, kind, at)} })

\* ------------------------------------------------------------- sampling
\* The loop of select_weighted_face / select_weighted_grass: the first index
\* whose running total reaches the draw (rand_val / RandRes), 0 if none does.
RECURSIVE WalkCumulative(_, _, _, _)
WalkCumulative(vals, i, current, rand_val) ==
    IF i > Len(vals) THEN 0
    ELSE IF rand_val <= (current + vals[i]) * RandRes THEN i
    ELSE WalkCumulative(vals, i + 1, current + vals[i], rand_val)

\* The loop with its fallback: the last entry when no running total reaches
\* the draw.
WalkOrLast(vals, rand_val) ==
    Only({ IF i = 0 THEN Len(vals) ELSE i : i \in {WalkCumulative(vals, 1, 0, rand_val)} })

\* Variant: the draw is ignored and the last face is returned
select_weighted_face_last(g, face_areas, total_area, at) ==
    IF face_areas = << >> \/ total_area = 0 THEN [g |-> g, val |-> 0]
    ELSE Only({ [g |-> u.g, val |-> Len(face_areas)] :
                 u \in {random_uniform(g, 0, total_area, "face", at)} })

\* Returns the index of the face, 0 for None.
select_weighted_face(g, face_areas, total_area, at) ==
    IF face_areas = << >> \/ total_area = 0 THEN [g |-> g, val |-> 0]
    ELSE Only({ [g |-> u.g, val |-> WalkOrLast(face_areas, u.val)] :
                 u \in {random_uniform(g, 0, total_area, "face", at)} })

\* Variant: a sample outside the triangle is not folded back
random_point_on_face_no_fold(g, at) ==
    Only({ Only({ [g |-> d2.g,
                   val |-> [w |-> << d1.k, d2.k, RandRes - d1.k - d2.k >>, den |-> RandRes]] :
                    d2 \in {random_random(d1.g, "r2", at)} }) :
            d1 \in {random_random(g, "r1", at)} })

\* The barycentric weights of the sample from the two draws k1, k2.
FoldWeights(k1, k2) ==
    LET fold == k1 + k2 > RandRes
        r1 == IF fold THEN RandRes - k1 ELSE k1
        r2 == IF fold THEN RandRes - k2 ELSE k2
        r3 == RandRes - r1 - r2
    IN  [w |-> << r1, r2, r3 >>, den |-> RandRes]

\* Every face is a triangle after bmesh.ops.triangulate, so the fewer-than-
\* three-vertices exit is never taken.
random_point_on_face(g, at) ==
    Only({ Only({ [g |-> d2.g, val |-> FoldWeights(d1.k, d2.k)] :
                    d2 \in {random_random(d1.g, "r2", at)} }) :
            d1 \in {random_random(g, "r1", at)} })

\* point.lerp(face_center, factor) with factor = tn / td; the centre has the
\* weights (1/3, 1/3, 1/3).
Lerp(point, tn, td) ==
    [w |-> [j \in 1..3 |-> (td - tn) * 3 * point.w[j] + tn * point.den],
     den |-> 3 * td * point.den]

\* Variant: the point is moved by clump_factor itself, the draw is not used
apply_clumping_by_factor(g, point, clump_factor, at) ==
    IF clump_factor <= 0 THEN [g |-> g, val |-> point]
    ELSE Only({ [g |-> d.g, val |-> Lerp(point, clump_factor, FactorUnit)] :
                 d \in {random_random(g, "clump", at)} })

\* point.lerp(face_center, clump_factor * random.random())
apply_clumping(g, point, clump_factor, at) ==
    IF clump_factor <= 0 THEN [g |-> g, val |-> point]
    ELSE Only({ [g |-> d.g, val |-> Lerp(point, clump_factor * d.k, FactorUnit * RandRes)] :
                 d \in {random_random(g, "clump", at)} })

\* Variant: the draw is ignored and the first valid entry is returned
select_weighted_grass_first(g, valid_grass, total_weight, at) ==
    Only({ [g |-> u.g, val |-> valid_grass[1].obj] :
            u \in {random_uniform(g, 0, total_weight, "grass", at)} })

\* Returns the grass object.
select_weighted_grass(g, valid_grass, total_weight, at) ==
    Only({ [g |-> u.g,
            val |-> valid_grass[WalkOrLast([j \in 1..Len(valid_grass) |-> valid_grass[j].weight],
                                           u.val)].obj] :
            u \in {random_uniform(g, 0, total_weight, "grass", at)} })

\* Variant: the object is turned about the normal before it is aligned
Orientation_spin_first(grass_obj, normal, settings, angle) ==
    IF normal > 0
    THEN IF settings.random_rotation
         THEN << [rot |-> "spin", angle |-> angle], [rot |-> "align", angle |-> 0] >>
         ELSE << [rot |-> "align", angle |-> 0] >>
    ELSE TemplateRotation(grass_obj)

\* new_grass.rotation_euler: the rotations in the order they act on the
\* object (random_quat @ rotation_quat turns by rotation_quat first); the
\* template's own rotation when the normal has no length.
Orientation(grass_obj, normal, settings, angle) ==
    IF normal > 0
    THEN IF settings.random_rotation
         THEN << [rot |-> "align", angle |-> 0], [rot |-> "spin", angle |-> angle] >>
         ELSE << [rot |-> "align", angle |-> 0] >>
    ELSE TemplateRotation(grass_obj)

\* grass_obj.copy() linked to the collection.
LinkCopy(g, grass_obj, at) == [g EXCEPT !.trace = Append(@, Ev("link", grass_obj, at, 0))]

\* The draw of the angle, taken only for a normal with length and with
\* random_rotation set.
DrawAngle(g, normal, settings, at) ==
    IF normal > 0 /\ settings.random_rotation
    THEN random_uniform(g, 0, 2, "angle", at)
    ELSE [g |-> g, val |-> 0]

\* The draw of the scale, taken only when scale_min and scale_max differ;
\* otherwise the copy keeps the scale of the template.
DrawScale(g, grass_obj, settings, at) ==
    IF settings.scale_min # settings.scale_max
    THEN random_uniform(g, settings.scale_min, settings.scale_max, "scale", at)
    ELSE [g |-> g, val |-> TemplateScale(grass_obj) * RandRes]

\* Variant: the scale is drawn before the rotation angle
create_grass_instance_scale_first(g, grass_obj, location, normal, settings, at) ==
    Only({ Only({ Only({
        [g |-> spin.g,
         val |-> [type |-> "MESH", template |-> grass_obj, location |-> location,
                  rotation |-> Orientation(grass_obj, normal, settings, spin.val),
                  scale |-> sc.val, parent |-> 0]] :
            spin \in {DrawAngle(sc.g, normal, settings, at)} }) :
            sc \in {DrawScale(linked, grass_obj, settings, at)} }) :
            linked \in {LinkCopy(g, grass_obj, at)} })

\* The new object: a copy of the template, moved, turned and scaled.
create_grass_instance(g, grass_obj, location, normal, settings, at) ==
    Only({ Only({ Only({
        [g |-> sc.g,
         val |-> [type |-> "MESH", template |-> grass_obj, location |-> location,
                  rotation |-> Orientation(grass_obj, normal, settings, spin.val),
                  scale |-> sc.val, parent |-> 0]] :
            sc \in {DrawScale(spin.g, grass_obj, settings, at)} }) :
            spin \in {DrawAngle(linked, normal, settings, at)} }) :
            linked \in {LinkCopy(g, grass_obj, at)} })

\* ------------------------------------------------------ Generate Grass
\* counts[name] = counts.get(name, 0) + n, a dict as a function on its keys.
CountsAdd(counts, name, n) ==
    [k \in DOMAIN counts \cup {name} |->
        (IF k \in DOMAIN counts THEN counts[k] ELSE 0) + (IF k = name THEN n ELSE 0)]

\* Variant: the counts of a target replace those of the targets before it
CountsMerge_overwrites(into, counts, keys) ==
    [k \in DOMAIN into \cup keys |-> IF k \in keys THEN counts[k] ELSE into[k]]

RECURSIVE CountsMerge(_, _, _)
CountsMerge(into, counts, keys) ==
    IF keys = {} THEN into
    ELSE LET k == CHOOSE x \in keys : TRUE
         IN  CountsMerge(CountsAdd(into, k, counts[k]), counts, keys \ {k})

\* Variant: the faces are counted, their areas are not added up
TotalArea_counts_faces(face_areas) == Len(face_areas)

\* total_area = sum(face_areas)
TotalArea(face_areas) == SumSeq(face_areas)

\* face_areas = [face.calc_area() for face in bm.faces]
FaceAreas(target_obj) == [j \in 1..Len(Faces(target_obj)) |-> Faces(target_obj)[j].area]

\* The sampled point, pulled towards the face centre when clumping is on.
SamplePoint(g, settings, at) ==
    Only({ IF settings.clumping_factor > 0
           THEN apply_clumping(p.g, p.val, settings.clumping_factor, at)
           ELSE p :
            p \in {random_point_on_face(g, at)} })

\* point_world: the point in the triangle, moved along the normal when
\* surface_offset is not 0.
Location(target_obj, face, point, normal_world, settings) ==
    [surface |-> target_obj, face |-> face, w |-> point.w, den |-> point.den,
     shift |-> IF settings.surface_offset # 0
               THEN normal_world * settings.surface_offset ELSE 0]

\* The rest of an iteration once the face is selected.
PlaceOnFace(acc, f, target_obj, at, valid_grass, total_weight, settings) ==
    Only({ Only({
        IF s.val = NoObject THEN [acc EXCEPT !.g = s.g]
        ELSE Only({ [g |-> n.g,
                     instances |-> Append(acc.instances, n.val),
                     counts |-> CountsAdd(acc.counts, s.val, 1)] :
                n \in {create_grass_instance(
                            s.g, s.val,
                            Location(target_obj, f.val, c.val,
                                     Faces(target_obj)[f.val].normal, settings),
                            Faces(target_obj)[f.val].normal, settings, at)} }) :
            s \in {select_weighted_grass(c.g, valid_grass, total_weight, at)} }) :
            c \in {SamplePoint(f.g, settings, at)} })

\* One iteration of the loop of generate_on_object; acc = [g, instances, counts].
PlaceOne(acc, target_obj, at, valid_grass, total_weight, settings) ==
    Only({ IF f.val = 0 THEN [acc EXCEPT !.g = f.g]
           ELSE PlaceOnFace(acc, f, target_obj, at, valid_grass, total_weight, settings) :
            f \in {select_weighted_face(acc.g, FaceAreas(target_obj),
                                        TotalArea(FaceAreas(target_obj)), at)} })

RECURSIVE PlaceLoop(_, _, _, _, _, _, _, _)
PlaceLoop(acc, i, total_count_for_this_object, target_obj, ti, valid_grass, total_weight, settings) ==
    IF i >= total_count_for_this_object THEN acc
    ELSE Only({ PlaceLoop(next, i + 1, total_count_for_this_object, target_obj, ti,
                          valid_grass, total_weight, settings) :
                 next \in {PlaceOne(acc, target_obj, << ti, i >>, valid_grass,
                                    total_weight, settings)} })

\* Variant: the generator is seeded again for every target
generate_on_object_reseeds(g, target_obj, ti, valid_grass, total_weight, settings, total_count_for_this_object) ==
    IF TotalArea(FaceAreas(target_obj)) = 0
    THEN [g |-> g, instances |-> << >>, counts |-> << >>]
    ELSE Only({ PlaceLoop(acc, 0, total_count_for_this_object, target_obj, ti,
                          valid_grass, total_weight, settings) :
                 acc \in {[g |-> random_seed(g, settings.distribution_seed),
                           instances |-> << >>, counts |-> << >>]} })

\* Returns [g, instances, counts] for one target.
generate_on_object(g, target_obj, ti, valid_grass, total_weight, settings, total_count_for_this_object) ==
    IF TotalArea(FaceAreas(target_obj)) = 0
    THEN [g |-> g, instances |-> << >>, counts |-> << >>]
    ELSE Only({ PlaceLoop(acc, 0, total_count_for_this_object, target_obj, ti,
                          valid_grass, total_weight, settings) :
                 acc \in {[g |-> g, instances |-> << >>, counts |-> << >>]} })

calculate_mesh_area(obj) ==
    IF ~IsMesh(obj) THEN 0
    ELSE SumSeq([j \in 1..Len(Faces(obj)) |-> Faces(obj)[j].area])

\* Variant: total_count is shared out among the targets of the list
CountForObject_shared(settings, mesh_area) ==
    IF settings.use_density_mode
    THEN (mesh_area * settings.density) \div DensityUnit
    ELSE settings.total_count \div Len(settings.target_objects)

\* total_count_for_this_object; int() drops the fraction of the product.
CountForObject(settings, mesh_area) ==
    IF settings.use_density_mode
    THEN (mesh_area * settings.density) \div DensityUnit
    ELSE settings.total_count

\* The target at position ti, a mesh: its instances and counts are added to
\* those of the targets before it.
VisitTarget(acc, ti, valid_grass, total_weight, settings) ==
    Only({ [g |-> r.g,
            instances |-> acc.instances \o r.instances,
            counts |-> CountsMerge(acc.counts, r.counts, DOMAIN r.counts),
            total_area |-> acc.total_area + calculate_mesh_area(settings.target_objects[ti])] :
            r \in {generate_on_object(
                        [acc.g EXCEPT !.trace =
                            Append(@, Ev("visit", settings.target_objects[ti], << ti, 0 >>, 0))],
                        settings.target_objects[ti], ti, valid_grass, total_weight, settings,
                        CountForObject(settings,
                                       calculate_mesh_area(settings.target_objects[ti])))} })

\* The loop over settings.target_objects; acc = [g, instances, counts, total_area].
RECURSIVE TargetLoop(_, _, _, _, _)
TargetLoop(acc, ti, valid_grass, total_weight, settings) ==
    IF ti > Len(settings.target_objects) THEN acc
    ELSE IF settings.target_objects[ti] = NoObject \/ ~IsMesh(settings.target_objects[ti])
    THEN TargetLoop(acc, ti + 1, valid_grass, total_weight, settings)
    ELSE Only({ TargetLoop(next, ti + 1, valid_grass, total_weight, settings) :
                 next \in {VisitTarget(acc, ti, valid_grass, total_weight, settings)} })

\* Variant: the weight is not looked at
IsValidGrass_any_weight(gr) == gr.obj # NoObject

\* Variant: an entry of weight 0 counts as valid
IsValidGrass_zero_weight(gr) == gr.obj # NoObject /\ gr.weight >= 0

\* g.obj and g.weight > 0
IsValidGrass(gr) == gr.obj # NoObject /\ gr.weight > 0

\* Variant: the grass list is tested in place of the target list
NoTargets_tests_grass(settings) == settings.grass_objects = << >>

\* not settings.target_objects
NoTargets(settings) == settings.target_objects = << >>

\* What a run that stops at a validation returns.
Cancelled(msg, g) ==
    [result |-> "CANCELLED", error |-> msg, g |-> g, instances |-> << >>,
     empties |-> << >>, grass_counts |-> << >>, total_area |-> 0]

\* The run once the lists are validated: seeding, the loop over the targets,
\* the container empty.
Scatter(settings, g0, valid_grass) ==
    Only({ IF total_weight = 0
           THEN Cancelled("Total grass weight is 0", random_seed(g0, settings.distribution_seed))
           ELSE Only({ [result |-> "FINISHED", error |-> "", g |-> r.g,
                        instances |-> r.instances,
                        empties |-> IF settings.parent_to_empty /\ r.instances # << >>
                                    THEN << [type |-> "EMPTY", name |-> "DayZ_Grass_Container"] >>
                                    ELSE << >>,
                        grass_counts |-> r.counts, total_area |-> r.total_area] :
                    r \in {TargetLoop([g |-> random_seed(g0, settings.distribution_seed),
                                       instances |-> << >>, counts |-> << >>,
                                       total_area |-> 0],
                                      1, valid_grass, total_weight, settings)} }) :
            total_weight \in {SumSeq([j \in 1..Len(valid_grass) |-> valid_grass[j].weight])} })

\* DAYZ_OT_GenerateGrass.execute as a function of the settings and the
\* generator state: what it returns, reports, creates and leaves in the generator.
execute(settings, rng0) ==
    IF NoTargets(settings)
    THEN Cancelled("No target objects set", [rng |-> rng0, trace |-> << >>])
    ELSE Only({ IF valid_grass = << >>
                THEN Cancelled("No valid grass objects with weight > 0",
                               [rng |-> rng0, trace |-> << >>])
                ELSE Scatter(settings, [rng |-> rng0, trace |-> << >>], valid_grass) :
                 valid_grass \in {SelectSeq(settings.grass_objects, IsValidGrass)} })

\* ---------------------------------------------------------------- state
VARIABLES
    settings,   \* context.scene.dayz_grass_placer_settings
    rng,        \* the state of Python's module-level random generator
    scene,      \* the objects linked to context.collection, in creation order
    last,       \* what the last Generate Grass run returned and reported
    passes,     \* Generate Grass runs so far
    objects,            \* bpy.data.objects: name -> [type, data]
    meshes,             \* bpy.data.meshes: name -> uv_layers, a sequence of UV maps
    selected_objects,   \* context.selected_objects, a sequence of object names
    uv_last,            \* what the last Clean Empty UV Maps run returned and reported
    cleans,             \* Clean Empty UV Maps runs so far
    p3d_objects,        \* context.scene.objects as the exporter sees them:
                        \* a sequence of [name, type, data, selected]
    p3d_props,          \* the properties of the Batch Export P3D operator
    p3d_files,          \* the files written to the export directory, in order
    p3d_temp,           \* the collection DAYZ_P3D_Export_Temp and the objects in it
    p3d_last,           \* what the last Batch Export P3D run returned
    exports,            \* Batch Export P3D runs so far
    bp_settings,        \* context.scene.dayz_batch_properties_settings
    bp_disk,            \* the files below the directories of the file system
    bp_scene,           \* the objects of the current Blender scene
    bp_last,            \* what the last Process run returned, reported and did
    bp_runs,            \* Process runs so far
    isl_faces,          \* bm.faces: the UV coordinates of the loops of each face
    isl_last            \* what the last estimate_uv_islands call returned

grass_vars == << settings, rng, scene, last, passes >>
uv_vars == << objects, meshes, selected_objects, uv_last, cleans >>
p3d_vars == << p3d_objects, p3d_props, p3d_files, p3d_temp, p3d_last, exports >>
bp_vars == << bp_settings, bp_disk, bp_scene, bp_last, bp_runs >>
isl_vars == << isl_faces, isl_last >>
vars == << grass_vars, uv_vars, p3d_vars, bp_vars, isl_vars >>

\* What the variables of the other tools hold while one tool is looked at.
other_tools == << uv_vars, p3d_vars, bp_vars, isl_vars >>

\* No object, no mesh, nothing selected and no run of the UV cleaner.
NoUVRun == [result |-> "NONE", total_deleted |-> 0, processed_objects |-> 0, before |-> << >>]
UVIdle ==
    /\ objects = << >>
    /\ meshes = << >>
    /\ selected_objects = << >>
    /\ uv_last = NoUVRun
    /\ cleans = 0

\* Nothing to export and no run of the batch exporter.
NoP3DRun ==
    [result |-> "NONE", successful_exports |-> 0, failed_exports |-> << >>, written |-> << >>,
     attempts |-> << >>, raised |-> FALSE, todo |-> << >>]
NoTemp == [exists |-> FALSE, objects |-> << >>]
P3DIdle ==
    /\ p3d_objects = << >>
    /\ p3d_props = << >>
    /\ p3d_files = {}
    /\ p3d_temp = NoTemp
    /\ p3d_last = NoP3DRun
    /\ exports = 0

\* No settings, no file, an empty scene and no run of Batch Add Named Properties.
NoBPRun == [result |-> "NONE", report |-> "", processed_count |-> 0, ops |-> << >>,
            processed |-> << >>, before |-> << >>]
BPIdle ==
    /\ bp_settings = << >>
    /\ bp_disk = << >>
    /\ bp_scene = << >>
    /\ bp_last = NoBPRun
    /\ bp_runs = 0

\* No face and no call of estimate_uv_islands.
NoIslandsCall == [called |-> FALSE, islands |-> 0, island_of |-> << >>, steps |-> 0]
IslandsIdle ==
    /\ isl_faces = << >>
    /\ isl_last = NoIslandsCall

\* The settings a behaviour starts from: every configuration over a few
\* target and grass lists, and every pair of lists up to the bounds under
\* one configuration.
Configs ==
    { [use_density_mode |-> b[1], density |-> b[2], total_count |-> b[3],
       surface_offset |-> off, clumping_factor |-> cf, distribution_seed |-> seed,
       scale_min |-> sr[1], scale_max |-> sr[2], random_rotation |-> rr,
       parent_to_empty |-> pe] :
        b \in { << FALSE, DensityUnit, n >> : n \in 1..MaxCount }
              \cup { << TRUE, d, 1 >> : d \in {DensityUnit - 1, DensityUnit} },
        off \in {0, 1}, cf \in {0, 1, FactorUnit}, seed \in {0, 7},
        sr \in { << 2 * ScaleUnit, 2 * ScaleUnit >>, << ScaleUnit, 2 * ScaleUnit >> },
        rr \in BOOLEAN, pe \in BOOLEAN }

CoreConfigs ==
    { c \in Configs :
        /\ ~c.use_density_mode /\ c.total_count = MaxCount /\ c.surface_offset = 1
        /\ c.clumping_factor = 1 /\ c.distribution_seed = 0
        /\ c.scale_min # c.scale_max /\ c.random_rotation /\ c.parent_to_empty }

TuftA(w) == [obj |-> "TuftA", weight |-> w]
TuftB(w) == [obj |-> "TuftB", weight |-> w]

CoreLists ==
    { << << "Plane", "Sliver" >>, << TuftA(1), TuftB(FactorUnit) >> >>,
      << << "Flat", "Plane" >>,   << TuftA(1), TuftB(FactorUnit) >> >>,
      << << "Sliver" >>,          << TuftB(FactorUnit) >> >>,
      << << NoObject, "Plane" >>, << TuftA(0), TuftA(1) >> >>,
      << << >>,                   << TuftA(1) >> >>,
      << << "Plane" >>,           << TuftA(0), [obj |-> NoObject, weight |-> FactorUnit] >> >>,
      << << "Plane" >>,           << >> >>,
      << << >>,                   << >> >> }

ListChoices ==
    CoreLists \cup (SeqsUpTo(TargetSlots, MaxTargets) \X SeqsUpTo(GrassSlots, MaxGrass))

WithLists(c, l) ==
    [target_objects |-> l[1], grass_objects |-> l[2],
     use_density_mode |-> c.use_density_mode, density |-> c.density,
     total_count |-> c.total_count, surface_offset |-> c.surface_offset,
     clumping_factor |-> c.clumping_factor, distribution_seed |-> c.distribution_seed,
     scale_min |-> c.scale_min, scale_max |-> c.scale_max,
     random_rotation |-> c.random_rotation, parent_to_empty |-> c.parent_to_empty]

SettingsDomain ==
    { WithLists(c, l) : c \in Configs, l \in CoreLists }
        \cup { WithLists(c, l) : c \in CoreConfigs, l \in ListChoices }

RngStarts == {1, 6}

NoRun ==
    [result |-> "NONE", error |-> "", first |-> 1, count |-> 0, grass_counts |-> << >>,
     total_area |-> 0, trace |-> << >>, settings |-> << >>]

Init ==
    /\ settings \in SettingsDomain
    /\ rng \in RngStarts
    /\ scene = << >>
    /\ last = NoRun
    /\ passes = 0
    /\ UVIdle
    /\ P3DIdle
    /\ BPIdle
    /\ IslandsIdle

\* Variant: every object of the scene, old or new, is parented to the new empty
GenerateGrass_parents_all ==
    /\ passes < MaxPasses
    /\ \E r \in {execute(settings, rng)} :
       LET parent == IF r.empties # << >> THEN Len(scene) + Len(r.instances) + 1 ELSE 0
           all == scene \o r.instances
       IN  /\ rng' = r.g.rng
           /\ scene' = [j \in 1..Len(all) |-> [all[j] EXCEPT !.parent = parent]] \o r.empties
           /\ last' = [result |-> r.result, error |-> r.error, first |-> Len(scene) + 1,
                       count |-> Len(r.instances), grass_counts |-> r.grass_counts,
                       total_area |-> r.total_area, trace |-> r.g.trace,
                       settings |-> settings]
    /\ passes' = passes + 1
    /\ UNCHANGED settings
    /\ UNCHANGED other_tools

\* DAYZ_OT_GenerateGrass.execute
GenerateGrass ==
    /\ passes < MaxPasses
    /\ \E r \in {execute(settings, rng)} :
       LET parent == IF r.empties # << >> THEN Len(scene) + Len(r.instances) + 1 ELSE 0
       IN  /\ rng' = r.g.rng
           /\ scene' = scene \o [j \in 1..Len(r.instances) |->
                                    [r.instances[j] EXCEPT !.parent = parent]]
                             \o r.empties
           /\ last' = [result |-> r.result, error |-> r.error, first |-> Len(scene) + 1,
                       count |-> Len(r.instances), grass_counts |-> r.grass_counts,
                       total_area |-> r.total_area, trace |-> r.g.trace,
                       settings |-> settings]
    /\ passes' = passes + 1
    /\ UNCHANGED settings
    /\ UNCHANGED other_tools

\* DAYZ_OT_ClearTargetObjects (poll: the list is not empty)
ClearTargetObjects ==
    /\ Len(settings.target_objects) > 0
    /\ settings' = [settings EXCEPT !.target_objects = << >>]
    /\ UNCHANGED << rng, scene, last, passes >>
    /\ UNCHANGED other_tools

\* DAYZ_OT_ClearGrassObjects (poll: the list is not empty)
ClearGrassObjects ==
    /\ Len(settings.grass_objects) > 0
    /\ settings' = [settings EXCEPT !.grass_objects = << >>]
    /\ UNCHANGED << rng, scene, last, passes >>
    /\ UNCHANGED other_tools

Next == GenerateGrass \/ ClearTargetObjects \/ ClearGrassObjects

Spec == Init /\ [][Next]_vars

\* ================================================================ claims
GenerateStep == passes' = passes + 1

Ran == last.result # "NONE"
Finished == last.result = "FINISHED"

\* The objects the last run created, and what was placed: candidate, position,
\* orientation and scale of each new instance.
Placement(inst) ==
    [template |-> inst.template, location |-> inst.location,
     rotation |-> inst.rotation, scale |-> inst.scale]
PlacementsOf(l, sc) ==
    [j \in 1..l.count |-> Placement(sc[l.first + j - 1])]
LastPlacements == PlacementsOf(last, scene)

IsDraw(e) == e.op = "draw"
IsSeed(e) == e.op = "seed"
IsVisit(e) == e.op = "visit"
IsLink(e) == e.op = "link"
Draws(tr) == SelectSeq(tr, IsDraw)

NoTargetsMsg == "No target objects set"
NoValidGrassMsg == "No valid grass objects with weight > 0"

NoPositiveWeight(grass) == \A j \in 1..Len(grass) : grass[j].weight = 0

\* C1: a Generate Grass run started with an empty target_objects list returns
\* CANCELLED with the error "No target objects set", creates no object,
\* counts no candidate and makes no draw.
C1_NoTargetsCancels ==
    [][(GenerateStep /\ settings.target_objects = << >>) =>
            /\ last'.result = "CANCELLED"
            /\ last'.error = NoTargetsMsg
            /\ scene' = scene
            /\ last'.count = 0
            /\ DOMAIN last'.grass_counts = {}
            /\ last'.trace = << >>
            /\ rng' = rng]_vars

\* A run with no targets, after an earlier run had placed grass.
C1_Witness ==
    /\ Ran
    /\ last.settings.target_objects = << >>
    /\ last.result = "CANCELLED"
    /\ scene # << >>

\* C2 as stated: whatever the target list, a run whose grass list has no
\* entry with weight > 0 is cancelled with the no-valid-grass error.
C2_Original ==
    [][(GenerateStep /\ NoPositiveWeight(settings.grass_objects)) =>
            /\ last'.result = "CANCELLED"
            /\ last'.error = NoValidGrassMsg
            /\ scene' = scene]_vars

\* C2 (amended): a run with a non-empty target list whose grass list has no
\* entry with weight > 0 (an empty list included) returns CANCELLED with the
\* error "No valid grass objects with weight > 0" before any target is
\* visited, and creates no object; with an empty target list the run is
\* cancelled too, with the no-targets error.
C2_NoValidGrassCancels ==
    [][(GenerateStep /\ NoPositiveWeight(settings.grass_objects)) =>
            /\ last'.result = "CANCELLED"
            /\ last'.error = IF settings.target_objects = << >>
                             THEN NoTargetsMsg ELSE NoValidGrassMsg
            /\ scene' = scene
            /\ last'.count = 0
            /\ DOMAIN last'.grass_counts = {}
            /\ \A j \in 1..Len(last'.trace) : ~IsVisit(last'.trace[j])]_vars

\* A cancelled run over a real target with grass entries that all weigh 0.
C2_Witness ==
    /\ Ran
    /\ last.error = NoValidGrassMsg
    /\ last.settings.grass_objects # << >>
    /\ NoPositiveWeight(last.settings.grass_objects)
    /\ \E j \in 1..Len(last.settings.target_objects) :
            last.settings.target_objects[j] = "Plane"

\* C3: when a finished run is followed by a run with the same settings, the
\* second run places the same instances (candidate, position, orientation and
\* scale at every index), although the generator was left in another state.
C3_Deterministic ==
    [][(GenerateStep /\ Finished /\ last.settings = settings) =>
            /\ last'.result = "FINISHED"
            /\ PlacementsOf(last', scene') = LastPlacements]_vars

\* A second run that placed instances, started from a generator state other
\* than the one the seed sets.
C3_Witness ==
    /\ passes = 2
    /\ Finished
    /\ last.count >= 2
    /\ last.first > 1
    /\ rng # last.settings.distribution_seed % RandMod

\* ---- the log of the last run
LastDraws == Draws(last.trace)
LastLinks == SelectSeq(last.trace, IsLink)
KindAt(e) == << e.kind, e.at >>

\* at precedes bt: an earlier target, or the same target and an earlier index.
Before(at, bt) == at[1] < bt[1] \/ (at[1] = bt[1] /\ at[2] < bt[2])

\* The draws one instance takes under configuration c, given the length of
\* the normal of the face it landed on.
InstanceDraws(c, normal) ==
    << "face", "r1", "r2" >>
        \o (IF c.clumping_factor > 0 THEN << "clump" >> ELSE << >>)
        \o << "grass" >>
        \o (IF c.random_rotation /\ normal > 0 THEN << "angle" >> ELSE << >>)
        \o (IF c.scale_min # c.scale_max THEN << "scale" >> ELSE << >>)

FaceNormal(inst) == Faces(inst.location.surface)[inst.location.face].normal

\* The draws of the instances j, j+1, ... of the last run, each with the
\* target and loop index the instance was linked for.
RECURSIVE ExpectedDraws(_, _)
ExpectedDraws(links, j) ==
    IF j > last.count THEN << >>
    ELSE LET kinds == InstanceDraws(last.settings, FaceNormal(scene[last.first + j - 1]))
         IN  [k \in 1..Len(kinds) |-> << kinds[k], links[j].at >>]
                \o ExpectedDraws(links, j + 1)

\* C4: the draws of a finished run are, instance after instance, exactly
\* face, r1, r2, the clumping draw only if clumping_factor > 0, the grass
\* draw, the angle draw only if random_rotation is set (and then exactly when
\* the face normal is not the zero vector), the scale draw only if
\* scale_min # scale_max; instances follow one another within a target and
\* targets follow the list order.
C4_DrawOrder ==
    Finished =>
        \A links \in {LastLinks}, draws \in {LastDraws} :
            /\ Len(links) = last.count
            /\ [i \in 1..Len(draws) |-> KindAt(draws[i])] = ExpectedDraws(links, 1)
            /\ \A j \in 1..(last.count - 1) : Before(links[j].at, links[j + 1].at)
            /\ \A j \in 1..Len(draws) :
                    draws[j].kind = "angle" => last.settings.random_rotation

\* A run over two targets with clumping, random rotation and a scale range:
\* all seven draws are taken for an instance of the second target.
C4_Witness ==
    /\ Finished
    /\ last.settings.clumping_factor > 0
    /\ last.settings.random_rotation
    /\ last.settings.scale_min # last.settings.scale_max
    /\ \E draws \in {LastDraws} :
            /\ \E j \in 1..Len(draws) : draws[j].kind = "angle" /\ draws[j].at[1] = 2
            /\ \E j \in 1..Len(draws) : draws[j].at = << 1, 1 >>

\* C5: a run that passes validation seeds the generator with
\* distribution_seed exactly once, before the first target is visited and
\* before any draw: the log starts with the one seeding, and the first draw
\* is the first output of the seeded generator.
C5_SeededOnceFirst ==
    Finished =>
        /\ Len(last.trace) >= 1
        /\ IsSeed(last.trace[1])
        /\ last.trace[1].val = last.settings.distribution_seed
        /\ \A j \in 2..Len(last.trace) : ~IsSeed(last.trace[j])
        /\ \A draws \in {LastDraws} :
                draws # << >> =>
                    draws[1].val = RngOut(last.settings.distribution_seed % RandMod)

\* A run that visited two targets and drew on both.
C5_Witness ==
    /\ Finished
    /\ \E draws \in {LastDraws} :
            /\ \E j \in 1..Len(draws) : draws[j].at[1] = 1
            /\ \E j \in 1..Len(draws) : draws[j].at[1] = 2
    /\ last.settings.distribution_seed # 0

\* ---- targets of the last run
LastTargets == last.settings.target_objects
PositiveArea(obj) == IsMesh(obj) /\ calculate_mesh_area(obj) > 0
ZeroArea(obj) == IsMesh(obj) /\ calculate_mesh_area(obj) = 0
NotZeroArea(obj) == ~ZeroArea(obj)

\* The instances the last run linked for the target at position ti.
LinksAt(links, ti) == { j \in 1..Len(links) : links[j].at[1] = ti }

\* C6: a target of total area zero gets no instance and no draw, does not
\* cancel the run, and the run places on the other targets exactly what a run
\* without the zero-area targets in the list places.
C6_ZeroAreaSkipped ==
    Finished =>
        /\ \A j \in 1..last.count :
                ~ZeroArea(scene[last.first + j - 1].location.surface)
        /\ \A j \in 1..Len(last.trace) :
                (IsDraw(last.trace[j]) \/ IsLink(last.trace[j]))
                    => ~ZeroArea(LastTargets[last.trace[j].at[1]])
        /\ \A others \in {SelectSeq(LastTargets, NotZeroArea)} \ {LastTargets} :
                IF others = << >> THEN last.count = 0
                ELSE \A without \in {execute([last.settings EXCEPT !.target_objects = others], 0)} :
                        /\ without.result = "FINISHED"
                        /\ [i \in 1..Len(without.instances) |-> Placement(without.instances[i])] = LastPlacements
                        /\ without.grass_counts = last.grass_counts

\* A finished run that placed grass and had the zero-area mesh before a
\* mesh with area in its target list.
C6_Witness ==
    /\ Finished
    /\ last.count > 0
    /\ Len(LastTargets) = 2
    /\ ZeroArea(LastTargets[1])
    /\ PositiveArea(LastTargets[2])

\* C7: in count mode every target mesh of positive area gets exactly
\* total_count instances, one for each loop index, however many targets the
\* list holds.
C7_CountPerTarget ==
    (Finished /\ ~last.settings.use_density_mode) =>
        /\ \A links \in {LastLinks} :
            \A ti \in 1..Len(LastTargets) :
                PositiveArea(LastTargets[ti]) =>
                    /\ Cardinality(LinksAt(links, ti)) = last.settings.total_count
                    /\ \A i \in 0..(last.settings.total_count - 1) :
                            \E j \in LinksAt(links, ti) : links[j].at = << ti, i >>
        /\ last.count = last.settings.total_count
                * Cardinality({ ti \in 1..Len(LastTargets) : PositiveArea(LastTargets[ti]) })

\* A count-mode run over two targets of positive area with the largest count.
C7_Witness ==
    /\ Finished
    /\ ~last.settings.use_density_mode
    /\ last.settings.total_count = MaxCount
    /\ Len(LastTargets) >= 2
    /\ \A ti \in 1..Len(LastTargets) : PositiveArea(LastTargets[ti])
    /\ last.count = MaxCount * Len(LastTargets)

\* round(n / d) as Python rounds: to the nearest integer, a tie to the even one.
Round(n, d) ==
    LET q == n \div d
        r == n % d
    IN  IF 2 * r < d THEN q
        ELSE IF 2 * r > d THEN q + 1
        ELSE IF q % 2 = 0 THEN q ELSE q + 1

\* C8: in density mode a target gets round(total_area * density) instances.
C8_DensityRounded ==
    (Finished /\ last.settings.use_density_mode) =>
        \A links \in {LastLinks} :
        \A ti \in 1..Len(LastTargets) :
            PositiveArea(LastTargets[ti]) =>
                Cardinality(LinksAt(links, ti)) =
                    Round(calculate_mesh_area(LastTargets[ti]) * last.settings.density,
                          DensityUnit)

\* C9: with scale_min = scale_max = s every placed instance has scale s,
\* whatever the scale of its template, and no scale draw is taken.
C9_FixedScale ==
    (Finished /\ last.settings.scale_min = last.settings.scale_max) =>
        /\ \A j \in 1..last.count :
                scene[last.first + j - 1].scale = last.settings.scale_min * RandRes
        /\ \A draws \in {LastDraws} : \A j \in 1..Len(draws) : draws[j].kind # "scale"

AreaUpTo(obj, f) == SumSeq(SubSeq(FaceAreas(obj), 1, f))

\* The face draws of the last run, and the one taken for a linked instance.
IsFaceDraw(e) == e.op = "draw" /\ e.kind = "face"
LastFaceDraws == SelectSeq(last.trace, IsFaceDraw)
FaceDrawOf(fdraws, link) == CHOOSE j \in 1..Len(fdraws) : fdraws[j].at = link.at

\* rand_val * RandRes of a face draw k over a mesh: uniform(0, total_area).
FaceRand(obj, k) == TotalArea(FaceAreas(obj)) * k

\* C11 as stated: the selected triangle is the one whose half-open interval
\* [area before it, area up to and including it) holds the draw.
C11_HalfOpen ==
    Finished =>
        \A links \in {LastLinks}, fdraws \in {LastFaceDraws} :
            \A j \in 1..last.count :
                LET loc == scene[last.first + j - 1].location
                    rand == FaceRand(loc.surface, fdraws[FaceDrawOf(fdraws, links[j])].val)
                IN  /\ AreaUpTo(loc.surface, loc.face - 1) * RandRes <= rand
                    /\ rand < AreaUpTo(loc.surface, loc.face) * RandRes

\* C11 (amended): the selected triangle is the first one, in face order,
\* whose cumulative area reaches the draw: the draw lies in (area before it,
\* area up to and including it], a draw of 0 selecting the first triangle;
\* and every face draw over a mesh of positive area selects a triangle, so
\* every face draw of the run has its instance.
C11_FirstReaching ==
    Finished =>
        \A links \in {LastLinks}, fdraws \in {LastFaceDraws} :
            /\ Len(fdraws) = last.count
            /\ \A j \in 1..last.count :
                LET loc == scene[last.first + j - 1].location
                    rand == FaceRand(loc.surface, fdraws[j].val)
                IN  /\ fdraws[j].at = links[j].at
                    /\ loc.face \in 1..Len(Faces(loc.surface))
                    /\ rand <= AreaUpTo(loc.surface, loc.face) * RandRes
                    /\ \A f \in 1..(loc.face - 1) :
                            AreaUpTo(loc.surface, f) * RandRes < rand

\* An instance on the first of two triangles whose draw is exactly the area
\* of that triangle, and another on the second triangle.
C11_Witness ==
    /\ Finished
    /\ \E fdraws \in {LastFaceDraws} : \E i, j \in 1..last.count :
            LET a == scene[last.first + i - 1].location
                b == scene[last.first + j - 1].location
            IN  /\ a.surface = "Plane" /\ a.face = 1
                /\ FaceRand("Plane", fdraws[i].val) = AreaUpTo("Plane", 1) * RandRes
                /\ b.surface = "Plane" /\ b.face = 2


\* The valid entries of the last run, their weights, and the grass draws.
LastValidGrass == SelectSeq(last.settings.grass_objects, IsValidGrass)
WeightUpTo(valid, i) == SumSeq([j \in 1..i |-> valid[j].weight])
IsGrassDraw(e) == e.op = "draw" /\ e.kind = "grass"
LastGrassDraws == SelectSeq(last.trace, IsGrassDraw)

\* The entries whose cumulative weight meets or exceeds the draw k
\* (rand_val = total_weight * k / RandRes).
Reaching(valid, k) ==
    { i \in 1..Len(valid) : WeightUpTo(valid, Len(valid)) * k <= WeightUpTo(valid, i) * RandRes }

\* C12: every grass draw returns a candidate: the first valid entry, in list
\* order, whose cumulative weight meets or exceeds the draw, the last valid
\* entry if there is none.
C12_FirstMeeting ==
    Finished =>
        \A valid \in {LastValidGrass}, gdraws \in {LastGrassDraws}, links \in {LastLinks} :
            /\ Len(gdraws) = last.count
            /\ \A j \in 1..last.count :
                /\ gdraws[j].at = links[j].at
                /\ gdraws[j].val \in 0..(RandRes - 1)
                /\ \A reach \in {Reaching(valid, gdraws[j].val)} :
                    scene[last.first + j - 1].template =
                        IF reach = {} THEN valid[Len(valid)].obj
                        ELSE valid[CHOOSE i \in reach : \A i2 \in reach : i <= i2].obj

\* A run over two valid entries of different objects that placed a copy of
\* the first, on a draw above 0, and a copy of the second.
C12_Witness ==
    /\ Finished
    /\ \E valid \in {LastValidGrass}, gdraws \in {LastGrassDraws} :
        /\ Len(valid) = 2
        /\ valid[1].obj # valid[2].obj
        /\ \E i, j \in 1..last.count :
            /\ scene[last.first + i - 1].template = valid[1].obj
            /\ gdraws[i].val > 0
            /\ scene[last.first + j - 1].template = valid[2].obj


\* The objects of the entries of a grass list that have an object and a
\* weight above 0.
PlaceableObjects(grass) ==
    { grass[j].obj : j \in { i \in 1..Len(grass) : grass[i].obj # NoObject /\ grass[i].weight > 0 } }

\* C13: every instance a run places is a copy of the object of a grass entry
\* that has an object and a weight above 0, whatever the draws were.
C13_OnlyWeightedPlaced ==
    Ran =>
        \A j \in 1..last.count :
            /\ scene[last.first + j - 1].template # NoObject
            /\ scene[last.first + j - 1].template \in PlaceableObjects(last.settings.grass_objects)

\* A run whose grass list starts with an entry of weight 0 (or without
\* object) and that placed an instance on a grass draw of exactly 0.
C13_Witness ==
    /\ Finished
    /\ last.count > 0
    /\ last.settings.grass_objects # << >>
    /\ ~IsValidGrass(last.settings.grass_objects[1])
    /\ last.settings.grass_objects[1].obj \notin PlaceableObjects(last.settings.grass_objects)
    /\ \E gdraws \in {LastGrassDraws} : \E j \in 1..Len(gdraws) : gdraws[j].val = 0


\* The placements of the last run on the target at position ti, in order.
PlacementsAt(links, ti) ==
    LET idx == SelectSeq([j \in 1..Len(links) |-> j], LAMBDA j : links[j].at[1] = ti)
    IN  [n \in 1..Len(idx) |-> Placement(scene[last.first + idx[n] - 1])]

\* C14: the placements on a target do not depend on the other targets of the
\* run: a target of positive area that follows another target of positive
\* area gets the placements it gets in a run where it is the only target.
C14_IndependentPerSurface ==
    (Finished /\ Len(LastTargets) = 2
        /\ PositiveArea(LastTargets[1]) /\ PositiveArea(LastTargets[2])) =>
        \A links \in {LastLinks},
           alone \in {execute([last.settings EXCEPT !.target_objects = << LastTargets[2] >>], 0)} :
            PlacementsAt(links, 2)
                = [n \in 1..Len(alone.instances) |-> Placement(alone.instances[n])]


LastDrawsOf(kind) == SelectSeq(last.trace, LAMBDA e : e.op = "draw" /\ e.kind = kind)

IsCentroid(loc) == loc.w[1] = loc.w[2] /\ loc.w[2] = loc.w[3]

\* C16 as stated: with clumping_factor = 1.0 every placed point is the
\* centroid of its triangle.
C16_AtCentroid ==
    (Finished /\ last.settings.clumping_factor = FactorUnit) =>
        \A j \in 1..last.count : IsCentroid(scene[last.first + j - 1].location)

\* C16 (amended): with clumping_factor = 1.0 every placed point is
\* (1 - U) * p + U * centroid, where p is the point sampled from r1, r2 and U
\* in [0, 1) is the clumping draw: on the segment from p to the centroid, and
\* the centroid itself only if p already was.
C16_TowardsCentroid ==
    (Finished /\ last.settings.clumping_factor = FactorUnit) =>
        \A d1 \in {LastDrawsOf("r1")}, d2 \in {LastDrawsOf("r2")}, dc \in {LastDrawsOf("clump")} :
            /\ Len(dc) = last.count
            /\ \A j \in 1..last.count :
                LET loc == scene[last.first + j - 1].location
                    p == FoldWeights(d1[j].val, d2[j].val)
                    u == dc[j].val
                IN  /\ 0 <= u /\ u < RandRes
                    /\ \A i \in 1..3 :
                        loc.w[i] * 3 * RandRes * RandRes
                            = loc.den * (3 * (RandRes - u) * p.w[i] + u * RandRes)
                    /\ IsCentroid(loc) => IsCentroid(p)

\* A run with clumping_factor = 1.0 that placed an instance off the centroid
\* on a clumping draw above 0.
C16_Witness ==
    /\ Finished
    /\ last.settings.clumping_factor = FactorUnit
    /\ \E dc \in {LastDrawsOf("clump")} : \E j \in 1..last.count :
            /\ dc[j].val > 0
            /\ ~IsCentroid(scene[last.first + j - 1].location)


\* The instances of the last run that are copies of a grass object.
CopiesOf(name) == { j \in 1..last.count : scene[last.first + j - 1].template = name }

\* The sum of the values of a function over a set of its keys.
RECURSIVE SumOver(_, _)
SumOver(f, keys) ==
    IF keys = {} THEN 0
    ELSE LET k == CHOOSE x \in keys : TRUE
         IN  f[k] + SumOver(f, keys \ {k})

\* C17: after a finished run the count reported for a grass object is the
\* number of its copies placed over all targets, every placed object is
\* reported, and the counts add up to the number of placed instances.
C17_CountsAggregate ==
    Finished =>
        /\ \A name \in DOMAIN last.grass_counts :
                last.grass_counts[name] = Cardinality(CopiesOf(name))
        /\ \A j \in 1..last.count :
                scene[last.first + j - 1].template \in DOMAIN last.grass_counts
        /\ SumOver(last.grass_counts, DOMAIN last.grass_counts) = last.count

\* A run that placed copies of one grass object on two targets and a copy
\* of another object as well.
C17_Witness ==
    /\ Finished
    /\ Cardinality(DOMAIN last.grass_counts) = 2
    /\ \E links \in {LastLinks} : \E i, j \in 1..last.count :
            /\ links[i].at[1] # links[j].at[1]
            /\ scene[last.first + i - 1].template = scene[last.first + j - 1].template


\* ============================================================ UV cleaner
\* operators/uv_cleaner.py: the Clean Empty UV Maps operator over the
\* selected objects and the UV maps of their meshes.
MaxMaps == 3         \* most UV maps on one mesh
MaxCleans == 2       \* Clean Empty UV Maps runs in one behaviour

\* min_area_threshold = 1e-6, in the unit the areas of the model are counted in.
MinAreaThreshold == 2

\* A UV map is kept by what analyze_uv_map reads off its coordinates: whether
\* all of them are at the origin, and the total area of its faces.
UVNames == << "UVMap", "UVMap.001", "UVMap.002", "UVMap.003" >>
MapKinds ==
    { [all_at_origin |-> TRUE, total_surface_area |-> 0],
      [all_at_origin |-> FALSE, total_surface_area |-> MinAreaThreshold - 1],
      [all_at_origin |-> FALSE, total_surface_area |-> MinAreaThreshold] }
Layers(kinds) ==
    [i \in 1..Len(kinds) |->
        [name |-> UVNames[i], all_at_origin |-> kinds[i].all_at_origin,
         total_surface_area |-> kinds[i].total_surface_area]]

\* analysis['is_empty']
analyze_uv_map(uv_layer) ==
    [name |-> uv_layer.name, all_at_origin |-> uv_layer.all_at_origin,
     total_surface_area |-> uv_layer.total_surface_area,
     is_empty |-> uv_layer.all_at_origin \/ uv_layer.total_surface_area < MinAreaThreshold]

is_uv_map_empty(uv_layer) == analyze_uv_map(uv_layer).is_empty
IsNotEmptyMap(uv_layer) == ~is_uv_map_empty(uv_layer)

\* A sequence without its entry at position i.
DropAt(s, i) == SubSeq(s, 1, i - 1) \o SubSeq(s, i + 1, Len(s))

\* obj.data.uv_layers.remove(uv_map), as the set of its outcomes. uv_map is
\* a reference taken by list(obj.data.uv_layers) before the loop; it points
\* into the array of layers, and a removal moves that array. The first
\* removal from a mesh finds the map it names. A later one goes through a
\* stale reference: it removes whichever map the reference now reads, or
\* raises when it reads none.
RemoveLayer(uv_layers, name, stale) ==
    IF ~stale
    THEN { [uv_layers |-> SelectSeq(uv_layers, LAMBDA l : l.name # name), raised |-> FALSE] }
    ELSE { [uv_layers |-> DropAt(uv_layers, i), raised |-> FALSE] : i \in 1..Len(uv_layers) }
            \cup { [uv_layers |-> uv_layers, raised |-> TRUE] }

\* for uv_map in empty_uv_maps: remove and count; st = [uv_layers, deleted,
\* raised]. The set of the states the loop can end in.
RECURSIVE RemoveEach(_, _, _)
RemoveEach(st, empty_uv_maps, k) ==
    IF k > Len(empty_uv_maps) \/ st.raised THEN {st}
    ELSE UNION { RemoveEach([uv_layers |-> o.uv_layers,
                             deleted |-> st.deleted + (IF o.raised THEN 0 ELSE 1),
                             raised |-> o.raised],
                            empty_uv_maps, k + 1) :
                  o \in RemoveLayer(st.uv_layers, empty_uv_maps[k].name, k > 1) }

\* Variant: empty maps are deleted also when no other map is left
CleanLayers_no_keep(uv_layers) ==
    IF Len(SelectSeq(uv_layers, is_uv_map_empty)) > 0
    THEN RemoveEach([uv_layers |-> uv_layers, deleted |-> 0, raised |-> FALSE],
                    SelectSeq(uv_layers, is_uv_map_empty), 1)
    ELSE { [uv_layers |-> uv_layers, deleted |-> 0, raised |-> FALSE] }

\* The body of the loop over the selected objects for a mesh that has UV
\* maps: the empty maps are deleted only if a non-empty one is there too.
CleanLayers(uv_layers) ==
    IF Len(SelectSeq(uv_layers, IsNotEmptyMap)) > 0 /\ Len(SelectSeq(uv_layers, is_uv_map_empty)) > 0
    THEN RemoveEach([uv_layers |-> uv_layers, deleted |-> 0, raised |-> FALSE],
                    SelectSeq(uv_layers, is_uv_map_empty), 1)
    ELSE { [uv_layers |-> uv_layers, deleted |-> 0, raised |-> FALSE] }

\* The loop over the selected mesh objects; st = [meshes, total_deleted,
\* processed_objects, raised]. An exception ends the operator where it is.
RECURSIVE CleanObjects(_, _, _, _)
CleanObjects(st, objs, selected, n) ==
    IF n > Len(selected) \/ st.raised THEN {st}
    ELSE IF st.meshes[objs[selected[n]].data] = << >>
    THEN CleanObjects(st, objs, selected, n + 1)
    ELSE UNION { CleanObjects([meshes |-> [st.meshes EXCEPT ![objs[selected[n]].data] = c.uv_layers],
                               total_deleted |-> st.total_deleted + c.deleted,
                               processed_objects |-> st.processed_objects
                                                        + (IF c.raised THEN 0 ELSE 1),
                               raised |-> c.raised],
                              objs, selected, n + 1) :
                  c \in CleanLayers(st.meshes[objs[selected[n]].data]) }

\* DAYZ_OT_CleanEmptyUVMaps.execute: the set of its outcomes.
clean_execute(objs, mesh_data, selected) ==
    IF SelectSeq(selected, LAMBDA o : objs[o].type = "MESH") = << >>
    THEN { [result |-> "CANCELLED", meshes |-> mesh_data, total_deleted |-> 0,
            processed_objects |-> 0] }
    ELSE { [result |-> IF st.raised THEN "EXCEPTION" ELSE "FINISHED", meshes |-> st.meshes,
            total_deleted |-> st.total_deleted, processed_objects |-> st.processed_objects] :
            st \in CleanObjects([meshes |-> mesh_data, total_deleted |-> 0,
                                 processed_objects |-> 0, raised |-> FALSE],
                                objs, SelectSeq(selected, LAMBDA o : objs[o].type = "MESH"), 1) }

\* The grass placer left alone.
GrassIdle ==
    /\ settings = WithLists(CHOOSE c \in CoreConfigs : TRUE, << << >>, << >> >>)
    /\ rng = 0
    /\ scene = << >>
    /\ last = NoRun
    /\ passes = 0

\* Two mesh objects, sharing a mesh or not, and an object that is no mesh.
ObjectNames == << "ObjA", "ObjB", "ObjC" >>
ObjectChoices ==
    { [ObjA |-> [type |-> "MESH", data |-> "MeshA"],
       ObjB |-> [type |-> "MESH", data |-> d],
       ObjC |-> [type |-> "EMPTY", data |-> NoObject]] : d \in {"MeshA", "MeshB"} }
MeshChoices ==
    { [MeshA |-> Layers(ka), MeshB |-> Layers(kb)] :
        ka \in SeqsUpTo(MapKinds, MaxMaps), kb \in SeqsUpTo(MapKinds, MaxMaps - 1) }
SelectionChoices ==
    { SelectSeq(ObjectNames, LAMBDA o : o \in chosen) : chosen \in SUBSET {"ObjA", "ObjB", "ObjC"} }

InitUV ==
    /\ GrassIdle
    /\ objects \in ObjectChoices
    /\ meshes \in MeshChoices
    /\ selected_objects \in SelectionChoices
    /\ uv_last = NoUVRun
    /\ cleans = 0
    /\ P3DIdle
    /\ BPIdle
    /\ IslandsIdle

\* DAYZ_OT_CleanEmptyUVMaps (poll: a mesh object is selected)
CleanEmptyUVMaps ==
    /\ cleans < MaxCleans
    /\ \E n \in 1..Len(selected_objects) : objects[selected_objects[n]].type = "MESH"
    /\ \E r \in clean_execute(objects, meshes, selected_objects) :
        /\ meshes' = r.meshes
        /\ uv_last' = [result |-> r.result, total_deleted |-> r.total_deleted,
                       processed_objects |-> r.processed_objects, before |-> meshes]
    /\ cleans' = cleans + 1
    /\ UNCHANGED << objects, selected_objects >>
    /\ UNCHANGED << grass_vars, p3d_vars, bp_vars, isl_vars >>

NextUV == CleanEmptyUVMaps

SpecUV == InitUV /\ [][NextUV]_vars


\* ------------------------------------------------------------ UV claims
UVRan == uv_last.result # "NONE"

\* The meshes of the selected mesh objects.
SelectedMeshes ==
    { objects[selected_objects[n]].data :
        n \in { i \in 1..Len(selected_objects) : objects[selected_objects[i]].type = "MESH" } }

\* C18: after a run of Clean Empty UV Maps, however it ended, every selected
\* mesh object that had a UV map before the run still has one, also when all
\* its maps are classified empty.
C18_KeepsOneMap ==
    UVRan =>
        \A m \in SelectedMeshes :
            uv_last.before[m] # << >> => meshes[m] # << >>

\* A run over a selected mesh whose maps, more than one, were all empty, in
\* a selection where another mesh lost a map.
C18_Witness ==
    /\ UVRan
    /\ \E m, m2 \in SelectedMeshes :
        /\ Len(uv_last.before[m]) > 1
        /\ \A i \in 1..Len(uv_last.before[m]) : is_uv_map_empty(uv_last.before[m][i])
        /\ meshes[m] = uv_last.before[m]
        /\ Len(meshes[m2]) < Len(uv_last.before[m2])

\* C19: after a finished run every selected mesh object that had a non-empty
\* UV map keeps exactly its non-empty maps, and the reported total is the
\* number of maps removed over all meshes.
C19_OnlyEmptyRemoved ==
    uv_last.result = "FINISHED" =>
        /\ \A m \in SelectedMeshes :
            SelectSeq(uv_last.before[m], IsNotEmptyMap) # << >>
                => meshes[m] = SelectSeq(uv_last.before[m], IsNotEmptyMap)
        /\ uv_last.total_deleted
                = SumOver([m \in DOMAIN meshes |-> Len(uv_last.before[m]) - Len(meshes[m])],
                          DOMAIN meshes)


\* ====================================================== batch P3D export
\* operators/batch_p3d_export.py: the Batch Export P3D operator. A name is a
\* sequence of characters.
MaxNameLen == 2      \* longest object name
MaxExports == 1      \* Batch Export P3D runs in one behaviour

\* The characters re.sub(r'[<>:"/\\|?*\s]', '_', name) replaces.
ReplacedChars == {"<", ">", ":", "\"", "/", "\\", "|", "?", "*", " ", "\t", "\n"}

\* Remove multiple underscores: re.sub(r'_+', '_', name)
RECURSIVE CollapseUnderscores(_)
CollapseUnderscores(name) ==
    IF Len(name) < 2 THEN name
    ELSE IF name[1] = "_" /\ name[2] = "_" THEN CollapseUnderscores(Tail(name))
    ELSE << name[1] >> \o CollapseUnderscores(Tail(name))

\* name.strip('_')
RECURSIVE StripUnderscores(_)
StripUnderscores(name) ==
    IF name = << >> THEN name
    ELSE IF name[1] = "_" THEN StripUnderscores(Tail(name))
    ELSE IF name[Len(name)] = "_" THEN StripUnderscores(SubSeq(name, 1, Len(name) - 1))
    ELSE name

clean_filename(name) ==
    StripUnderscores(CollapseUnderscores(
        [i \in 1..Len(name) |-> IF name[i] \in ReplacedChars THEN "_" ELSE name[i]]))

\* The name the convention picks, cleaned, between prefix and suffix, with
\* the extension.
get_filename(props, obj) ==
    props.custom_prefix
        \o clean_filename(IF props.naming_convention = "MESH_NAME" THEN obj.data ELSE obj.name)
        \o props.custom_suffix
        \o << ".p3d" >>

\* The positions in the scene of the objects to export.
get_export_objects(objs, props) ==
    SelectSeq([i \in 1..Len(objs) |-> i],
              LAMBDA i : objs[i].type = "MESH" /\ (props.use_selection => objs[i].selected))

\* poll: a mesh among the selected objects, or, with nothing selected, a
\* mesh in the scene.
P3DPoll(objs) ==
    IF \E i \in 1..Len(objs) : objs[i].selected
    THEN \E i \in 1..Len(objs) : objs[i].selected /\ objs[i].type = "MESH"
    ELSE \E i \in 1..Len(objs) : objs[i].type = "MESH"

\* get_object_hierarchy: the object at position i and, with include_children,
\* its children and theirs.
RECURSIVE get_children_recursive(_, _, _)
get_children_recursive(objs, parents, n) ==
    IF n > Len(parents) THEN << >>
    ELSE Only({ kids \o get_children_recursive(objs, kids, 1)
                    \o get_children_recursive(objs, parents, n + 1) :
                  kids \in {SelectSeq([j \in 1..Len(objs) |-> j],
                                      LAMBDA j : objs[j].parent = parents[n])} })

get_object_hierarchy(objs, i, props) ==
    IF props.include_children THEN << i >> \o get_children_recursive(objs, << i >>, 1)
    ELSE << i >>

\* prepare_object_hierarchy_for_export: a duplicate of every object of the
\* hierarchy, each linked to the temporary collection.
prepare_object_hierarchy_for_export(objs, i, props) ==
    Only({ [k \in 1..Len(h) |-> [of |-> h[k], type |-> objs[h[k]].type]] :
             h \in {get_object_hierarchy(objs, i, props)} })

\* The loops that unlink and remove every object of the temporary collection.
RECURSIVE RemoveTempObjects(_)
RemoveTempObjects(temp_objects) ==
    IF temp_objects = << >> THEN << >> ELSE RemoveTempObjects(Tail(temp_objects))

\* create_temp_collection: the collection of that name, new or found, emptied.
create_temp_collection(temp) == [exists |-> TRUE, objects |-> RemoveTempObjects(temp.objects)]

\* cleanup_temp_collection: the objects are removed, then the collection.
cleanup_temp_collection(temp) ==
    Only({ [exists |-> FALSE, objects |-> emptied] :
             emptied \in {RemoveTempObjects(temp.objects)} })

\* Variant: the operator is cancelled as soon as one export failed
P3DResult_any_failure_cancels(st) ==
    IF st.raised \/ st.successful_exports = 0 \/ st.failed_exports # << >>
    THEN "CANCELLED" ELSE "FINISHED"

\* What execute returns after the loop: CANCELLED from the handler of an
\* unexpected exception or when nothing was exported.
P3DResult(st) ==
    IF st.raised \/ st.successful_exports = 0 THEN "CANCELLED" ELSE "FINISHED"

\* export_single_object for the object at position i: the duplicates are
\* linked to the temporary collection and selected; exported tells whether
\* the P3D exporter then wrote the file. The temporary collection as the
\* export found it is logged in attempts.
export_single_object(st, objs, props, i, exported) ==
    Only({ IF exported
           THEN [st EXCEPT !.temp = @ \o export_objects,
                           !.attempts = Append(@, [obj |-> i, temp |-> st.temp,
                                                   selected |-> export_objects]),
                           !.successful_exports = @ + 1,
                           !.written = Append(@, [filepath |-> get_filename(props, objs[i]),
                                                  obj |-> i])]
           ELSE [st EXCEPT !.temp = @ \o export_objects,
                           !.attempts = Append(@, [obj |-> i, temp |-> st.temp,
                                                   selected |-> export_objects]),
                           !.failed_exports = Append(@, objs[i].name)] :
             export_objects \in {prepare_object_hierarchy_for_export(objs, i, props)} })

\* Variant: the temporary collection is not emptied between two exports
ClearAfterExport_skipped(temp_objects) == temp_objects

\* execute: the temporary collection is emptied after each export.
ClearAfterExport(temp_objects) == RemoveTempObjects(temp_objects)

\* The loop of execute over the objects to export; exported[n] tells whether
\* the P3D exporter wrote the file of the n-th object, raise_at = n that an
\* unexpected exception leaves the loop after the n-th export was counted.
\* st = [successful_exports, failed_exports, written, attempts, temp, raised].
RECURSIVE ExportLoop(_, _, _, _, _, _, _)
ExportLoop(st, objs, props, todo, exported, raise_at, n) ==
    IF n > Len(todo) THEN st
    ELSE Only({ IF raise_at = n
                THEN [done EXCEPT !.raised = TRUE]
                ELSE ExportLoop([done EXCEPT !.temp = ClearAfterExport(@)],
                                objs, props, todo, exported, raise_at, n + 1) :
                  done \in {export_single_object(st, objs, props, todo[n], exported[n])} })

\* DAYZ_OT_BatchExportP3D.execute; temp is the temporary collection as the
\* run finds it.
p3d_execute(objs, props, temp, todo, exported, raise_at) ==
    IF todo = << >>
    THEN [result |-> "CANCELLED", successful_exports |-> 0, failed_exports |-> << >>,
          written |-> << >>, attempts |-> << >>, raised |-> FALSE, temp |-> temp]
    ELSE Only({ [result |-> P3DResult(st),
                 successful_exports |-> st.successful_exports,
                 failed_exports |-> st.failed_exports, written |-> st.written,
                 attempts |-> st.attempts, raised |-> st.raised,
                 temp |-> cleanup_temp_collection([exists |-> TRUE, objects |-> st.temp])] :
                 st \in {ExportLoop([successful_exports |-> 0, failed_exports |-> << >>,
                                     written |-> << >>, attempts |-> << >>,
                                     temp |-> create_temp_collection(temp).objects,
                                     raised |-> FALSE],
                                    objs, props, todo, exported, raise_at, 1)} })


\* The files of the export directory after the writes of one run: a later
\* write to a path replaces the file that was there.
RECURSIVE WriteFiles(_, _, _, _)
WriteFiles(files, objs, written, n) ==
    IF n > Len(written) THEN files
    ELSE WriteFiles({f \in files : f.filepath # written[n].filepath}
                        \cup {[filepath |-> written[n].filepath,
                               content |-> objs[written[n].obj].name]},
                    objs, written, n + 1)

\* Object names: the sequences over a letter, the space and the underscore,
\* and a name of one character that no file name may hold.
NameChars == {"a", " ", "_"}
Names == UNION {[1..n -> NameChars] : n \in 1..MaxNameLen} \cup {<< ":" >>}

\* Three objects with distinct names: a mesh of any name, a second mesh named
\* "a", and an empty that is a child of the first mesh or of none. The second
\* mesh has its own mesh data or shares the first's.
P3DObjectChoices ==
    { << [name |-> n, type |-> "MESH", data |-> << "m" >>, selected |-> s1, parent |-> 0],
         [name |-> << "a" >>, type |-> "MESH", data |-> d2, selected |-> s2, parent |-> 0],
         [name |-> << "e" >>, type |-> "EMPTY", data |-> << >>, selected |-> FALSE,
          parent |-> p3] >> :
        n \in Names \ {<< "a" >>},
        d2 \in {<< "m" >>, << "n" >>},
        s1 \in BOOLEAN, s2 \in BOOLEAN, p3 \in {0, 1} }

P3DPropChoices ==
    { [use_selection |-> u, include_children |-> ic, naming_convention |-> c,
       custom_prefix |-> x[1], custom_suffix |-> x[2]] :
        u \in BOOLEAN, ic \in BOOLEAN, c \in {"OBJECT_NAME", "MESH_NAME", "CUSTOM"},
        x \in {<< << >>, << >> >>, << << "p", "_" >>, << "_", "s" >> >>} }

\* The temporary collection before the first run: none, or one of that name
\* with an object left in it.
P3DTempChoices ==
    { NoTemp, [exists |-> TRUE, objects |-> << [of |-> 0, type |-> "MESH"] >>] }

\* Children are looked at with include_children set or not; without a child
\* include_children is set. Without use_selection nothing is selected.
InitP3D ==
    /\ GrassIdle
    /\ UVIdle
    /\ BPIdle
    /\ IslandsIdle
    /\ p3d_objects \in P3DObjectChoices
    /\ p3d_props \in P3DPropChoices
    /\ p3d_objects[3].parent = 0 => p3d_props.include_children
    /\ ~p3d_props.use_selection => \A i \in 1..Len(p3d_objects) : ~p3d_objects[i].selected
    /\ p3d_files = {}
    /\ p3d_temp \in P3DTempChoices
    /\ p3d_last = NoP3DRun
    /\ exports = 0

\* One run of Batch Export P3D; the P3D exporter writes the file of an
\* object or fails on it, and an unexpected exception may leave the loop.
BatchExportP3D ==
    /\ exports < MaxExports
    /\ P3DPoll(p3d_objects)
    /\ \E todo \in {get_export_objects(p3d_objects, p3d_props)} :
       \E exported \in [1..Len(todo) -> BOOLEAN] :
       \E raise_at \in 0..Len(todo) :
       \E r \in {p3d_execute(p3d_objects, p3d_props, p3d_temp, todo, exported, raise_at)} :
           /\ p3d_last' = [result |-> r.result, successful_exports |-> r.successful_exports,
                           failed_exports |-> r.failed_exports, written |-> r.written,
                           attempts |-> r.attempts, raised |-> r.raised,
                           todo |-> todo]
           /\ p3d_temp' = r.temp
           /\ p3d_files' = WriteFiles(p3d_files, p3d_objects, r.written, 1)
    /\ exports' = exports + 1
    /\ UNCHANGED << p3d_objects, p3d_props >>
    /\ UNCHANGED << grass_vars, uv_vars, bp_vars, isl_vars >>

NextP3D == BatchExportP3D

SpecP3D == InitP3D /\ [][NextP3D]_vars

\* ---------------------------------------------------------------- C20
P3DRan == p3d_last.result # "NONE"

\* C20: within one run of Batch Export P3D, two distinct exported objects are
\* never written to the same file path, whatever the naming convention, the
\* prefix and the suffix.
C20_SeparateFiles ==
    P3DRan =>
        \A i \in 1..Len(p3d_last.written) : \A j \in 1..Len(p3d_last.written) :
            i # j => p3d_last.written[i].filepath # p3d_last.written[j].filepath



\* ================================================ batch named properties
\* operators/batch_properties.py: the Process operator of Batch Add Named
\* Properties.
MaxProps == 2        \* longest named_properties list
MaxLods == 1         \* most objects in the first file
MaxProcess == 2      \* Process runs in one behaviour

\* What properties.add() of the object's named properties gives before it is
\* filled in.
BlankProperty == [name |-> "", value |-> ""]

\* The directories of the file system; target_directory is one of them, is
\* unset or names none.
ExistingDirs == {"models"}

\* file.lower() of the extension of a file name
Lower(ext) == IF ext = ".P3D" THEN ".p3d" ELSE ext

\* file.lower().endswith(".p3d")
IsP3DName(file) == Lower(file.ext) = ".p3d"

\* The files process_p3d_files_in_directory collects: with recursive_search
\* those of the subdirectories too.
ListP3D(disk, s) ==
    SelectSeq([i \in 1..Len(disk) |-> i],
              LAMBDA i : IsP3DName(disk[i]) /\ (s.recursive_search \/ ~disk[i].sub))

\* The index of the first property named name, 0 when there is none.
FindProperty(props, name) ==
    IF \E i \in 1..Len(props) : props[i].name = name
    THEN CHOOSE i \in 1..Len(props) :
            /\ props[i].name = name
            /\ \A j \in 1..(i - 1) : props[j].name # name
    ELSE 0

\* Variant: a configured property is always added
SetProperty_always_adds(props, item) ==
    IF item.name = "" THEN props
    ELSE Append(IF props = << >> THEN << BlankProperty >> ELSE props,
                [name |-> item.name, value |-> item.value])

\* The body of the loop over settings.named_properties for one mesh.
SetProperty(props, item) ==
    IF item.name = "" THEN props
    ELSE Only({ IF i = 0
                THEN Append(ensured, [name |-> item.name, value |-> item.value])
                ELSE [ensured EXCEPT ![i].value = item.value] :
                  ensured \in {IF props = << >> THEN << BlankProperty >> ELSE props},
                  i \in {FindProperty(props, item.name)} })

\* The loop over settings.named_properties for one mesh.
RECURSIVE SetProperties(_, _, _)
SetProperties(props, items, n) ==
    IF n > Len(items) THEN props
    ELSE SetProperties(SetProperty(props, items[n]), items, n + 1)

\* resolution_lods: the meshes of the Visuals collection
IsResolutionLod(obj) == obj.collection = "Visuals" /\ obj.type = "MESH"

\* The loop over resolution_lods.
ModifyLods(objs, items) ==
    [k \in 1..Len(objs) |->
        IF IsResolutionLod(objs[k])
        THEN [objs[k] EXCEPT !.properties = SetProperties(@, items, 1)]
        ELSE objs[k]]

\* The scene after clear_scene.
EmptyScene == [main |-> FALSE, visuals |-> FALSE, objects |-> << >>]

BPOp(op, file) == [op |-> op, file |-> file]

\* process_single_p3d for the file at position i: st = [disk, scene, ops,
\* processed]; exported tells whether the exporter wrote the file.
process_single_p3d(st, i, s, exported) ==
    Only({ IF st.disk[i].broken
           THEN [cleared EXCEPT !.ops = Append(@, BPOp("import_failed", i))]
           ELSE Only({ IF ~imported.scene.main \/ ~imported.scene.visuals
                          \/ ~\E k \in 1..Len(imported.scene.objects) :
                                 IsResolutionLod(imported.scene.objects[k])
                       THEN imported
                       ELSE Only({ IF exported
                                   THEN [modified EXCEPT !.disk[i].objects = modified.scene.objects,
                                                         !.ops = Append(@, BPOp("export", i)),
                                                         !.processed = Append(@, i)]
                                   ELSE [modified EXCEPT !.ops = Append(@, BPOp("export_failed", i))] :
                                     modified \in {[imported EXCEPT !.scene.objects =
                                                        ModifyLods(@, s.named_properties)]} }) :
                         imported \in {[cleared EXCEPT
                                          !.scene = [main |-> st.disk[i].main,
                                                     visuals |-> st.disk[i].visuals,
                                                     objects |-> st.disk[i].objects],
                                          !.ops = Append(@, BPOp("import", i))]} }) :
             cleared \in {[st EXCEPT !.scene = EmptyScene,
                                     !.ops = Append(@, BPOp("clear", i))]} })

\* The loop of process_p3d_files_in_directory over the files found.
RECURSIVE ProcessFiles(_, _, _, _, _)
ProcessFiles(st, todo, s, exported, n) ==
    IF n > Len(todo) THEN st
    ELSE ProcessFiles(process_single_p3d(st, todo[n], s, exported[n]), todo, s, exported, n + 1)

\* Variant: the list of named properties is not looked at
BPValidation_no_list_check(s) ==
    IF s.target_directory = "" THEN "No target directory specified"
    ELSE IF s.target_directory \notin ExistingDirs THEN "Target directory does not exist"
    ELSE ""

\* The validation of execute: the error it reports, "" when there is none.
BPValidation(s) ==
    IF s.target_directory = "" THEN "No target directory specified"
    ELSE IF s.target_directory \notin ExistingDirs THEN "Target directory does not exist"
    ELSE IF s.named_properties = << >> THEN "No named properties defined"
    ELSE ""

\* DAYZ_OT_ProcessBatchProperties.execute
bp_execute(disk, scn, s, exported) ==
    IF BPValidation(s) # ""
    THEN [result |-> "CANCELLED", report |-> BPValidation(s), processed_count |-> 0,
          ops |-> << >>, processed |-> << >>, disk |-> disk, scene |-> scn]
    ELSE Only({ [result |-> "FINISHED",
                 report |-> IF st.processed # << >> THEN "Successfully processed"
                            ELSE "No .p3d files found or processed",
                 processed_count |-> Len(st.processed),
                 ops |-> st.ops, processed |-> st.processed,
                 disk |-> st.disk, scene |-> st.scene] :
                  st \in {ProcessFiles([disk |-> disk, scene |-> scn, ops |-> << >>,
                                        processed |-> << >>],
                                       ListP3D(disk, s), s, exported, 1)} })


\* The named properties a mesh of a file comes with.
ImportedProperties ==
    { << >>,
      << [name |-> "lodnoshadow", value |-> "0"] >>,
      << [name |-> "autocenter", value |-> "0"], [name |-> "lodnoshadow", value |-> "0"] >> }

\* The objects of a file with a Visuals collection: a mesh of the Visuals
\* collection or a mesh of the Geometry collection.
ImportedObjects ==
    { [type |-> "MESH", collection |-> "Visuals", properties |-> p] : p \in ImportedProperties }
    \cup { [type |-> "MESH", collection |-> "Geometry", properties |-> << >>] }

\* A file of the target directory that imports with its main collection and
\* a Visuals collection.
GoodFile(objs) ==
    [ext |-> ".p3d", sub |-> FALSE, broken |-> FALSE, main |-> TRUE, visuals |-> TRUE,
     objects |-> objs]

\* The files that may lie beside the first one: one with two meshes, in a
\* subdirectory, one
\* the importer fails on, one with no mesh in its Visuals collection, one
\* whose main collection is not found, one without a Visuals collection, one
\* that is no P3D file.
OtherFiles ==
    { [GoodFile(<< [type |-> "MESH", collection |-> "Visuals", properties |-> << >>],
                   [type |-> "MESH", collection |-> "Visuals",
                    properties |-> << [name |-> "lodnoshadow", value |-> "0"] >>] >>)
          EXCEPT !.sub = TRUE, !.ext = ".P3D"],
      [GoodFile(<< >>) EXCEPT !.broken = TRUE],
      GoodFile(<< [type |-> "EMPTY", collection |-> "Visuals", properties |-> << >>] >>),
      [GoodFile(<< [type |-> "MESH", collection |-> "Visuals", properties |-> << >>] >>)
          EXCEPT !.main = FALSE],
      [GoodFile(<< [type |-> "MESH", collection |-> "Geometry", properties |-> << >>] >>)
          EXCEPT !.visuals = FALSE],
      [GoodFile(<< >>) EXCEPT !.ext = ".txt"] }

DiskChoices ==
    { << GoodFile(objs) >> \o rest :
        objs \in UNION {[1..n -> ImportedObjects] : n \in 0..MaxLods},
        rest \in {<< >>} \cup {<< f >> : f \in OtherFiles} }

\* The entries of named_properties.
NamedProperties ==
    { [name |-> "", value |-> "1"], [name |-> "lodnoshadow", value |-> "1"],
      [name |-> "lodnoshadow", value |-> "0"], [name |-> "autocenter", value |-> "1"] }

BPSettingsChoices ==
    { [target_directory |-> d, recursive_search |-> r, named_properties |-> np] :
        d \in {"", "missing"} \cup ExistingDirs, r \in BOOLEAN,
        np \in UNION {[1..n -> NamedProperties] : n \in 0..MaxProps} }

\* The scene Process is invoked in: one mesh of the user.
UserScene ==
    [main |-> FALSE, visuals |-> FALSE,
     objects |-> << [type |-> "MESH", collection |-> "Scene Collection", properties |-> << >>] >>]

\* Settings without an existing target directory are looked at with one
\* file system and recursive_search set.
InitBP ==
    /\ GrassIdle
    /\ UVIdle
    /\ P3DIdle
    /\ IslandsIdle
    /\ bp_settings \in BPSettingsChoices
    /\ bp_disk \in DiskChoices
    /\ bp_settings.target_directory \notin ExistingDirs =>
          /\ bp_settings.recursive_search
          /\ bp_disk = CHOOSE d \in DiskChoices : Len(d) = 1 /\ Len(d[1].objects) = 1
    /\ bp_scene = UserScene
    /\ bp_last = NoBPRun
    /\ bp_runs = 0

\* One run of Process; the P3D exporter writes a file or fails on it.
ProcessBatchProperties ==
    /\ bp_runs < MaxProcess
    /\ \E exported \in [1..Len(ListP3D(bp_disk, bp_settings)) -> BOOLEAN] :
       \E r \in {bp_execute(bp_disk, bp_scene, bp_settings, exported)} :
           /\ bp_last' = [result |-> r.result, report |-> r.report,
                          processed_count |-> r.processed_count, ops |-> r.ops,
                          processed |-> r.processed, before |-> bp_disk]
           /\ bp_disk' = r.disk
           /\ bp_scene' = r.scene
    /\ bp_runs' = bp_runs + 1
    /\ UNCHANGED bp_settings
    /\ UNCHANGED << grass_vars, uv_vars, p3d_vars, isl_vars >>

NextBP == ProcessBatchProperties

SpecBP == InitBP /\ [][NextBP]_vars


\* ---------------------------------------------------------------- C21
BPRan == bp_last.result # "NONE"

\* The step is a run of Process.
ProcessStep == bp_runs' = bp_runs + 1

\* The names configured, the empty one aside.
ConfiguredNames ==
    { bp_settings.named_properties[n].name : n \in 1..Len(bp_settings.named_properties) } \ {""}

\* The value of the last configured entry named name.
LastConfigured(name) ==
    bp_settings.named_properties[
        CHOOSE n \in 1..Len(bp_settings.named_properties) :
            /\ bp_settings.named_properties[n].name = name
            /\ \A m \in (n + 1)..Len(bp_settings.named_properties) :
                   bp_settings.named_properties[m].name # name].value

CountNamed(props, name) == Cardinality({j \in 1..Len(props) : props[j].name = name})

\* The files the last run processed successfully.
ProcessedFiles == { bp_last.processed[n] : n \in 1..Len(bp_last.processed) }

\* The meshes of the Visuals collection of file i.
LodsOf(i) == { k \in 1..Len(bp_disk[i].objects) : IsResolutionLod(bp_disk[i].objects[k]) }

\* C21 as stated: after a file is processed successfully, each mesh of its
\* Visuals collection has, for every configured entry with a non-empty name,
\* exactly the value of that entry under that name.
C21_EveryConfiguredValue ==
    BPRan =>
        \A i \in ProcessedFiles : \A k \in LodsOf(i) :
        \A n \in 1..Len(bp_settings.named_properties) :
        \A e \in {bp_settings.named_properties[n]} :
            e.name # "" =>
                /\ CountNamed(bp_disk[i].objects[k].properties, e.name) >= 1
                /\ \A j \in 1..Len(bp_disk[i].objects[k].properties) :
                       bp_disk[i].objects[k].properties[j].name = e.name
                           => bp_disk[i].objects[k].properties[j].value = e.value

\* C21: after a file is processed successfully, each mesh of its Visuals
\* collection has under every configured non-empty name the value of the
\* last configured entry of that name; a property that was there under the
\* name is updated where it stands and none is added, a missing one is
\* added once at the end; a mesh that had no property gets a blank one in
\* front; every other property and every other object is as it was.
C21_LastConfiguredValue ==
    BPRan =>
        \A i \in ProcessedFiles :
        /\ Len(bp_disk[i].objects) = Len(bp_last.before[i].objects)
        /\ \A k \in 1..Len(bp_disk[i].objects) :
           \A b \in {bp_last.before[i].objects[k].properties} :
           \A a \in {bp_disk[i].objects[k].properties} :
              /\ bp_disk[i].objects[k].type = bp_last.before[i].objects[k].type
              /\ bp_disk[i].objects[k].collection = bp_last.before[i].objects[k].collection
              /\ IF ~IsResolutionLod(bp_disk[i].objects[k]) \/ ConfiguredNames = {}
                 THEN a = b
                 ELSE \A blank \in {IF b = << >> THEN 1 ELSE 0} :
                      /\ \A name \in ConfiguredNames :
                            /\ FindProperty(a, name) # 0
                            /\ a[FindProperty(a, name)].value = LastConfigured(name)
                            /\ CountNamed(a, name) = IF CountNamed(b, name) = 0 THEN 1
                                                     ELSE CountNamed(b, name)
                            /\ FindProperty(b, name) # 0
                                   => FindProperty(a, name) = FindProperty(b, name)
                      /\ blank = 1 => a[1] = BlankProperty
                      /\ Len(a) = Len(b) + blank
                                  + Cardinality({name \in ConfiguredNames : CountNamed(b, name) = 0})
                      /\ \A j \in 1..Len(b) :
                            /\ a[j].name = b[j].name
                            /\ b[j].name \notin ConfiguredNames => a[j] = b[j]

\* A processed file with a mesh that had a property under a name the list
\* configures twice, with two values.
C21_Witness ==
    /\ BPRan
    /\ \E i \in ProcessedFiles : \E k \in LodsOf(i) :
       \E n, m \in 1..Len(bp_settings.named_properties) :
          /\ n < m
          /\ bp_settings.named_properties[n].name = bp_settings.named_properties[m].name
          /\ bp_settings.named_properties[n].value # bp_settings.named_properties[m].value
          /\ CountNamed(bp_last.before[i].objects[k].properties,
                        bp_settings.named_properties[n].name) = 1

\* ---------------------------------------------------------------- C22
\* The settings the validation of execute rejects.
BPInvalid ==
    \/ bp_settings.target_directory = ""
    \/ bp_settings.target_directory \notin ExistingDirs
    \/ bp_settings.named_properties = << >>

\* C22: with no target directory, a target path that is no existing
\* directory or an empty list of named properties, Process reports an error
\* and returns CANCELLED; the scene is not cleared and no file is imported
\* or exported.
C22_ValidatesFirst ==
    [][ (ProcessStep /\ BPInvalid) =>
            /\ bp_last'.result = "CANCELLED"
            /\ bp_last'.report \in {"No target directory specified",
                                    "Target directory does not exist",
                                    "No named properties defined"}
            /\ bp_last'.ops = << >>
            /\ bp_scene' = bp_scene
            /\ bp_disk' = bp_disk ]_vars

\* Process was cancelled for the empty list alone, with files to process.
C22_Witness ==
    /\ bp_last.result = "CANCELLED"
    /\ bp_settings.target_directory \in ExistingDirs
    /\ bp_settings.named_properties = << >>
    /\ ListP3D(bp_disk, bp_settings) # << >>
    /\ bp_scene = UserScene


\* ---------------------------------------------------------------- C23
\* Where a rotation takes a direction, for a normal with length: the
\* alignment takes the up axis onto the normal; a turn about the normal
\* leaves the normal where it is and moves every other direction unless its
\* angle is 0.
TurnedBy(dir, r) ==
    CASE r.rot = "align" -> IF dir = "up" THEN "normal" ELSE "elsewhere"
      [] r.rot = "spin"  -> IF dir = "normal" \/ r.angle = 0 THEN dir ELSE "elsewhere"
      [] OTHER           -> "elsewhere"

\* Where the rotations of an instance, in the order they act, take its up axis.
RECURSIVE UpAxisAfter(_, _)
UpAxisAfter(dir, rotation) ==
    IF rotation = << >> THEN dir
    ELSE UpAxisAfter(TurnedBy(dir, Head(rotation)), Tail(rotation))

\* C23 as stated: on a face whose normal has length the alignment of the up
\* axis with the normal is the rotation applied last, and the up axis ends
\* up on the normal.
C23_AlignAppliedLast ==
    Finished =>
        \A j \in 1..last.count : \A inst \in {scene[last.first + j - 1]} :
            FaceNormal(inst) > 0 =>
                /\ inst.rotation[Len(inst.rotation)].rot = "align"
                /\ UpAxisAfter("up", inst.rotation) = "normal"

\* C23: on a face whose normal has length the instance is first aligned (up
\* axis onto the normal) and, with random_rotation, then turned about the
\* normal by the drawn angle (2 * pi * U, in [0, 2 * pi)), the turn being the
\* rotation applied last;
\* without random_rotation the alignment is the only rotation; either way the
\* up axis ends up on the normal. On a face whose normal is the zero vector
\* the instance keeps the rotation of its template.
C23_AlignThenSpin ==
    Finished =>
        \A angles \in {LastDrawsOf("angle")} :
        \A j \in 1..last.count : \A inst \in {scene[last.first + j - 1]} :
            IF FaceNormal(inst) > 0
            THEN /\ inst.rotation[1] = [rot |-> "align", angle |-> 0]
                 /\ IF last.settings.random_rotation
                    THEN /\ Len(inst.rotation) = 2
                         /\ inst.rotation[2].rot = "spin"
                         /\ \E n \in 1..Len(angles) :
                                inst.rotation[2].angle = 2 * angles[n].val
                         /\ 0 <= inst.rotation[2].angle /\ inst.rotation[2].angle < 2 * RandRes
                    ELSE Len(inst.rotation) = 1
                 /\ UpAxisAfter("up", inst.rotation) = "normal"
            ELSE inst.rotation = TemplateRotation(inst.template)

\* A run with random_rotation placed an instance on a face with a normal
\* and turned it by an angle above 0.
C23_Witness ==
    /\ Finished
    /\ last.settings.random_rotation
    /\ \E j \in 1..last.count : \E inst \in {scene[last.first + j - 1]} :
          /\ FaceNormal(inst) > 0
          /\ Len(inst.rotation) = 2
          /\ inst.rotation[2].angle > 0


\* ---------------------------------------------------------------- C24
\* The objects the last run attempted to export, in order.
Attempted == [n \in 1..Len(p3d_last.attempts) |-> p3d_last.attempts[n].obj]

\* C24 as stated: every export object is attempted exactly once, successes
\* and failures add up to the number of objects when no unexpected exception
\* occurs, and the run returns CANCELLED exactly when nothing was exported,
\* FINISHED otherwise.
C24_CancelledIffNoSuccess ==
    P3DRan =>
        /\ Attempted = p3d_last.todo
        /\ ~p3d_last.raised =>
              p3d_last.successful_exports + Len(p3d_last.failed_exports) = Len(p3d_last.todo)
        /\ p3d_last.result = (IF p3d_last.successful_exports = 0 THEN "CANCELLED" ELSE "FINISHED")

\* C24: when no unexpected exception occurs, every export object is
\* attempted exactly once in list order whether or not earlier ones failed,
\* successes and failures add up to the number of objects, and the run
\* returns CANCELLED exactly when nothing was exported (no mesh object found
\* included), FINISHED otherwise. When an unexpected exception leaves the
\* loop, the objects up to that point were attempted once each, the others
\* are not attempted, and the run returns CANCELLED whatever was exported.
C24_AttemptsAll ==
    P3DRan =>
        /\ p3d_last.successful_exports = Len(p3d_last.written)
        /\ p3d_last.successful_exports + Len(p3d_last.failed_exports) = Len(Attempted)
        /\ IF p3d_last.raised
           THEN /\ Attempted # << >>
                /\ Len(Attempted) <= Len(p3d_last.todo)
                /\ Attempted = SubSeq(p3d_last.todo, 1, Len(Attempted))
                /\ p3d_last.result = "CANCELLED"
           ELSE /\ Attempted = p3d_last.todo
                /\ p3d_last.result
                      = (IF p3d_last.successful_exports = 0 THEN "CANCELLED" ELSE "FINISHED")
                /\ p3d_last.todo = << >> => p3d_last.result = "CANCELLED"

\* A run without exception whose first export failed and whose second
\* succeeded.
C24_Witness ==
    /\ P3DRan /\ ~p3d_last.raised
    /\ Len(p3d_last.todo) = 2
    /\ p3d_last.failed_exports = << p3d_objects[p3d_last.todo[1]].name >>
    /\ p3d_last.successful_exports = 1
    /\ p3d_last.result = "FINISHED"

MaxFaces == 3        \* most faces of a mesh
RoundUnit == 10      \* the sixth decimal, in units of a coordinate

\* round(x, 6): the nearest multiple of the sixth decimal, the even one of
\* two that are equally near.
Round6(x) ==
    Only({ IF 2 * r < RoundUnit THEN x - r
           ELSE IF 2 * r > RoundUnit THEN x - r + RoundUnit
           ELSE IF ((x - r) \div RoundUnit) % 2 = 0 THEN x - r
           ELSE x - r + RoundUnit :
             r \in {x % RoundUnit} })

\* current_uvs / other_uvs: the rounded coordinates of the loops of a face.
FaceUVs(face) == { << Round6(face[k][1]), Round6(face[k][2]) >> : k \in 1..Len(face) }

\* any(uv in other_uvs for uv in current_uvs)
SharesUV(current_face, other_face) == FaceUVs(current_face) \cap FaceUVs(other_face) # {}

\* Variant: only the first face found connected is added
ConnectedFaces_first_only(faces, visited_faces, current) ==
    Only({ IF found = << >> THEN found ELSE << found[1] >> :
             found \in {SelectSeq([f \in 1..Len(faces) |-> f],
                                  LAMBDA f : f \notin visited_faces
                                                /\ SharesUV(faces[current], faces[f]))} })

\* The faces one pass over bm.faces appends to island_faces for the current
\* face: those not visited that share a coordinate with it, in mesh order.
ConnectedFaces(faces, visited_faces, current) ==
    SelectSeq([f \in 1..Len(faces) |-> f],
              LAMBDA f : f \notin visited_faces /\ SharesUV(faces[current], faces[f]))

\* while i < len(island_faces); st = [visited_faces, island_faces, steps].
RECURSIVE GrowIsland(_, _, _)
GrowIsland(faces, st, i) ==
    IF i > Len(st.island_faces) THEN st
    ELSE Only({ GrowIsland(faces,
                           [visited_faces |-> st.visited_faces \cup {found[k] : k \in 1..Len(found)},
                            island_faces |-> st.island_faces \o found,
                            steps |-> st.steps + 1],
                           i + 1) :
                  found \in {ConnectedFaces(faces, st.visited_faces, st.island_faces[i])} })

\* for face in bm.faces; acc = [islands, island_of, visited_faces, steps],
\* island_of the island each visited face was put in.
RECURSIVE IslandsLoop(_, _, _)
IslandsLoop(faces, acc, f) ==
    IF f > Len(faces) THEN acc
    ELSE IF f \in acc.visited_faces THEN IslandsLoop(faces, acc, f + 1)
    ELSE Only({ IslandsLoop(faces,
                            [islands |-> acc.islands + 1,
                             island_of |-> [g \in DOMAIN acc.island_of
                                                    \cup {grown.island_faces[k] :
                                                             k \in 1..Len(grown.island_faces)} |->
                                               IF g \in DOMAIN acc.island_of THEN acc.island_of[g]
                                               ELSE acc.islands + 1],
                             visited_faces |-> grown.visited_faces,
                             steps |-> grown.steps],
                            f + 1) :
                  grown \in {GrowIsland(faces,
                                        [visited_faces |-> acc.visited_faces \cup {f},
                                         island_faces |-> << f >>, steps |-> acc.steps],
                                        1)} })

\* DAYZ_OT_CleanEmptyUVMaps.estimate_uv_islands
estimate_uv_islands(faces) ==
    IslandsLoop(faces, [islands |-> 0, island_of |-> << >>, visited_faces |-> {}, steps |-> 0], 1)

\* Triangles in UV space: three in a chain of shared corners, one that
\* touches the chain only after rounding, one across the origin that touches
\* it only after rounding, one apart that rounding moves away from a
\* neighbour, one far away.
UVFaces ==
    { << << 0, 0 >>, << 100, 0 >>, << 0, 100 >> >>,
      << << 100, 0 >>, << 200, 0 >>, << 100, 100 >> >>,
      << << 200, 0 >>, << 300, 0 >>, << 200, 100 >> >>,
      << << 303, 0 >>, << 400, 0 >>, << 300, 104 >> >>,
      << << 0 - 4, 2 >>, << 0 - 100, 0 >>, << 0, 0 - 100 >> >>,
      << << 406, 6 >>, << 500, 6 >>, << 406, 100 >> >>,
      << << 900, 900 >>, << 1000, 900 >>, << 900, 1000 >> >> }

InitIslands ==
    /\ GrassIdle
    /\ UVIdle
    /\ P3DIdle
    /\ BPIdle
    /\ isl_faces \in UNION {[1..n -> UVFaces] : n \in 0..MaxFaces}
    /\ isl_last = NoIslandsCall

\* analyze_uv_map calls estimate_uv_islands on the faces of the mesh.
EstimateUVIslands ==
    /\ ~isl_last.called
    /\ \E r \in {estimate_uv_islands(isl_faces)} :
           isl_last' = [called |-> TRUE, islands |-> r.islands, island_of |-> r.island_of,
                        steps |-> r.steps]
    /\ UNCHANGED isl_faces
    /\ UNCHANGED << grass_vars, uv_vars, p3d_vars, bp_vars >>

NextIslands == EstimateUVIslands

SpecIslands == InitIslands /\ [][NextIslands]_vars

\* ---------------------------------------------------------------- C26
\* The faces joined to those of S by a chain of shared rounded coordinates.
RECURSIVE ReachedFrom(_)
ReachedFrom(S) ==
    IF \E g \in 1..Len(isl_faces) :
          g \notin S /\ \E f \in S : SharesUV(isl_faces[f], isl_faces[g])
    THEN ReachedFrom(S \cup { g \in 1..Len(isl_faces) :
                                \E f \in S : SharesUV(isl_faces[f], isl_faces[g]) })
    ELSE S

\* The connected components of the graph on the faces.
Components == { ReachedFrom({f}) : f \in 1..Len(isl_faces) }

\* C26: estimate_uv_islands ends after one pass of its while loop for each
\* face and returns the number of connected components of the graph whose
\* nodes are the faces and whose edges join two faces that share a rounded UV
\* coordinate: every face is in exactly one island, two faces are in the same
\* island exactly when a chain of shared coordinates joins them, and a mesh
\* without faces gives 0.
C26_CountsComponents ==
    isl_last.called =>
        /\ isl_last.steps = Len(isl_faces)
        /\ isl_last.islands = Cardinality(Components)
        /\ DOMAIN isl_last.island_of = 1..Len(isl_faces)
        /\ \A f \in 1..Len(isl_faces) : isl_last.island_of[f] \in 1..isl_last.islands
        /\ \A k \in 1..isl_last.islands : \E f \in 1..Len(isl_faces) : isl_last.island_of[f] = k
        /\ \A f, g \in 1..Len(isl_faces) :
              isl_last.island_of[f] = isl_last.island_of[g] <=> g \in ReachedFrom({f})
        /\ isl_faces = << >> => isl_last.islands = 0

\* A mesh of three faces in one island, two of them joined only through the
\* third and two only after rounding.
C26_Witness ==
    /\ isl_last.called
    /\ Len(isl_faces) = 3
    /\ isl_last.islands = 1
    /\ \E f, g \in 1..3 : f # g /\ ~SharesUV(isl_faces[f], isl_faces[g])
    /\ \E f, g \in 1..3 :
          /\ SharesUV(isl_faces[f], isl_faces[g])
          /\ { isl_faces[f][k] : k \in 1..3 } \cap { isl_faces[g][k] : k \in 1..3 } = {}

====
